---------------------------- MODULE Spec2Model ----------------------------
(***************************************************************************)
(* gcontacts: reconciliation of a Google Contacts list with a local        *)
(* tab-delimited .addressbook file (src/src/main.rs).                      *)
(*                                                                         *)
(* A string is a sequence of one-character strings.  An Option<T> is a     *)
(* sequence of length 0 (None) or 1 (Some), a Vec<T> is a sequence.  A     *)
(* text file is the sequence of its physical lines, as BufRead::lines      *)
(* yields them (terminator stripped).                                      *)
(***************************************************************************)
EXTENDS Integers, Sequences, FiniteSets, TLC

VARIABLES
  \* Successive generate_nickname calls for one contact.
  nk_name,     \* the display name
  nk_count,    \* email_count
  nk_pool0,    \* existing_nicknames before the first call
  nk_prev,     \* existing_nicknames before the latest call
  nk_pool,     \* existing_nicknames now
  nk_out,      \* the nicknames returned, in call order
  \* The record codec on its own.
  cd_mode,     \* "records": write cd_in, then load; "file": load cd_file
  cd_in,       \* the records to write
  cd_file,     \* the file: None, or Some(lines)
  cd_out,      \* the state load_addressbook_data ended in: None or Some
  \* The accessors of a remote contact on their own.
  gx_person,   \* the Person they are applied to
  gx_out,      \* None, or Some of the name, nickname and biography returned
  \* decode_if_encoded on its own.
  dc_in,       \* the field it is applied to
  dc_out,      \* None, or Some of what the call ended in
  \* The comparison of the common loop on its own.
  cm_ap,       \* the local contact: None or Some
  cm_person,   \* the remote contact: None or Some
  cm_out,      \* None, or Some of anickname and of whether the loop continues
  \* One run of main.
  sel,         \* Select: "init" or "sync"
  pc,          \* where main is
  exit_code,   \* the process's exit status once pc = "exit"
  file0,       \* ~/.addressbook when the run starts: None, or Some(lines)
  file,        \* ~/.addressbook now
  connections, \* results.1.connections: Option<Vec<Person>>
  apeople,     \* the local contacts in memory
  apeople_diarty, \* the write flag of sync
  groups,      \* unique_to_gpersons, unique_to_apeople, common_emails
  todo,        \* the emails each of the three loops has still to visit
  email,       \* the email of the running outer iteration: None or Some
  aperson,     \* common loop: the local contact found for the email
  related,     \* the inner loop's list
  idx,         \* the inner loop's position in related (1-based)
  trace        \* what the run has done so far, in order

nickVars == <<nk_name, nk_count, nk_pool0, nk_prev, nk_pool, nk_out>>
codecVars == <<cd_mode, cd_in, cd_file, cd_out>>
extractVars == <<gx_person, gx_out>>
compareVars == <<cm_ap, cm_person, cm_out>>
decodeVars == <<dc_in, dc_out>>
inputVars == <<sel, file0, connections>>
loopVars == <<todo, email, aperson, related, idx>>
mainVars ==
  <<inputVars, pc, exit_code, file, apeople, apeople_diarty, groups, loopVars, trace>>
vars == <<nickVars, codecVars, extractVars, compareVars, decodeVars, mainVars>>

\* ------------------------------------------------------------ bounds
\* Longest .addressbook file (in physical lines) the codec harness draws.
MaxLines == 2
\* Most records the round-trip harness serializes.
MaxRecords == 2
\* Largest email_count (number of successive calls) of the nickname harness.
MaxEmails == 3
\* Longest initial pool of the nickname harness.
MaxPool == 2
\* Longest local file (in lines) and remote contact list of a modelled run.
MaxLocal == 2
MaxRemote == 2

\* ------------------------------------------------------------ strings
TAB == "\t"
SPC == " "
NL == "\n"
Digits == {"0", "1", "2", "3", "4", "5", "6", "7", "8", "9"}
\* char::is_whitespace, restricted to the white space the model's alphabet has.
IsWhitespace(c) == c \in {SPC, TAB, NL}

None == <<>>
Some(x) == <<x>>
EmptyStr == <<>>

\* Decimal digits of u32::MAX = 4294967295.
U32Digits == 10

DigitVal(c) ==
  CASE c = "0" -> 0 [] c = "1" -> 1 [] c = "2" -> 2 [] c = "3" -> 3
    [] c = "4" -> 4 [] c = "5" -> 5 [] c = "6" -> 6 [] c = "7" -> 7
    [] c = "8" -> 8 [] c = "9" -> 9

DigitChar(d) ==
  CASE d = 0 -> "0" [] d = 1 -> "1" [] d = 2 -> "2" [] d = 3 -> "3"
    [] d = 4 -> "4" [] d = 5 -> "5" [] d = 6 -> "6" [] d = 7 -> "7"
    [] d = 8 -> "8" [] d = 9 -> "9"

\* s[from..] (1-based, from may be Len(s)+1).
Drop(s, from) == SubSeq(s, from, Len(s))

StartsWith(s, p) == Len(s) >= Len(p) /\ SubSeq(s, 1, Len(p)) = p
EndsWith(s, p) == Len(s) >= Len(p) /\ SubSeq(s, Len(s) - Len(p) + 1, Len(s)) = p

RECURSIVE TrimStart(_)
\* str::trim_start.
TrimStart(s) ==
  IF s # <<>> /\ IsWhitespace(Head(s)) THEN TrimStart(Tail(s)) ELSE s

RECURSIVE TrimEnd(_)
\* str::trim_end.
TrimEnd(s) ==
  IF s # <<>> /\ IsWhitespace(s[Len(s)]) THEN TrimEnd(SubSeq(s, 1, Len(s) - 1)) ELSE s

\* str::trim.
Trim(s) == TrimEnd(TrimStart(s))

\* char::to_lowercase, on the letters the model's alphabet has in both cases.
LowerChar(c) ==
  CASE c = "Y" -> "y" [] c = "N" -> "n" [] c = "E" -> "e" [] c = "S" -> "s"
    [] c = "G" -> "g" [] c = "A" -> "a" [] OTHER -> c

\* str::to_lowercase.
ToLowercase(s) == [i \in 1..Len(s) |-> LowerChar(s[i])]

RECURSIVE SplitOn(_, _)
\* str::split(sep).collect(): the empty string yields one empty field.
SplitOn(s, sep) ==
  IF \E i \in 1..Len(s) : s[i] = sep
  THEN LET i == CHOOSE k \in 1..Len(s) :
                  s[k] = sep /\ \A j \in 1..(k - 1) : s[j] # sep
       IN <<SubSeq(s, 1, i - 1)>> \o SplitOn(Drop(s, i + 1), sep)
  ELSE <<s>>

RECURSIVE SplitWhitespace(_)
\* str::split_whitespace().collect(): no empty tokens.
SplitWhitespace(s) ==
  LET t == TrimStart(s) IN
  IF t = <<>> THEN <<>>
  ELSE IF \E i \in 1..Len(t) : IsWhitespace(t[i])
       THEN LET i == CHOOSE k \in 1..Len(t) :
                        IsWhitespace(t[k]) /\ \A j \in 1..(k - 1) : ~IsWhitespace(t[j])
            IN <<SubSeq(t, 1, i - 1)>> \o SplitWhitespace(Drop(t, i + 1))
       ELSE <<t>>

Unknown == <<"U", "n", "k", "n", "o", "w", "n">>

\* name.split_whitespace().last().unwrap_or("Unknown")
LastNamePart(name) ==
  LET w == SplitWhitespace(name) IN IF w = <<>> THEN Unknown ELSE w[Len(w)]

RECURSIVE ParseDigits(_, _)
ParseDigits(s, acc) ==
  IF s = <<>> THEN acc ELSE ParseDigits(Tail(s), acc * 10 + DigitVal(Head(s)))

RECURSIVE StripZeros(_)
StripZeros(s) == IF s # <<>> /\ Head(s) = "0" THEN StripZeros(Tail(s)) ELSE s

\* number_part.parse::<u32>().unwrap_or(0), for a part that starts with a digit:
\* 0 when a non-digit follows or the value exceeds u32::MAX.  The model's
\* integers are 32-bit signed, so a part of U32Digits or more significant
\* digits is taken as out of range; the strings the model draws are shorter.
ParseU32OrZero(s) ==
  IF (\A i \in 1..Len(s) : s[i] \in Digits) /\ Len(StripZeros(s)) < U32Digits
  THEN ParseDigits(s, 0)
  ELSE 0

\* split_string_and_number: <<string part, number part>>.
split_string_and_number(s) ==
  IF \E i \in 1..Len(s) : s[i] \in Digits
  THEN LET index == CHOOSE k \in 1..Len(s) :
                      s[k] \in Digits /\ \A j \in 1..(k - 1) : s[j] \notin Digits
       IN <<SubSeq(s, 1, index - 1), ParseU32OrZero(Drop(s, index))>>
  ELSE <<s, 0>>

RECURSIVE DecimalDigits(_)
DecimalDigits(n) ==
  IF n < 10 THEN <<DigitChar(n)>> ELSE DecimalDigits(n \div 10) \o <<DigitChar(n % 10)>>

\* Format02 without the zero padding ("{}" for "{:02}").
Format02_NoPad(n) == DecimalDigits(n)

\* format!("{:02}", n)
Format02(n) == IF n < 10 THEN <<"0">> \o DecimalDigits(n) ELSE DecimalDigits(n)

Contains(seq, x) == \E i \in 1..Len(seq) : seq[i] = x

\* ------------------------------------------------------------ nicknames
\* generate_nickname without its while loop: the first candidate is taken.
FirstFree_NoLoop(base, c, pool) == c

RECURSIVE FirstFree(_, _, _)
\* The while loop of generate_nickname: the first counter >= c whose
\* candidate base + {:02}(counter + 1) is not in the pool.
FirstFree(base, c, pool) ==
  IF Contains(pool, base \o Format02(c + 1)) THEN FirstFree(base, c + 1, pool) ELSE c

\* generate_nickname without the test of email_count: a counter is appended
\* on every call.
generate_nickname_AlwaysCounter(name, email_count, existing_nicknames) ==
  LET last_name_part == LastNamePart(name)
      split == split_string_and_number(existing_nicknames[1])
      base_nickname == IF existing_nicknames # <<>> THEN split[1] ELSE last_name_part
      counter0 == IF existing_nicknames # <<>> THEN split[2] ELSE 0
      counter == FirstFree(base_nickname, counter0, existing_nicknames)
      nickname == base_nickname \o Format02(counter + 1)
  IN [nickname |-> nickname, pool |-> Append(existing_nicknames, nickname)]

\* generate_nickname(name, email_count, &mut existing_nicknames):
\* [nickname |-> the value returned, pool |-> existing_nicknames afterwards].
generate_nickname(name, email_count, existing_nicknames) ==
  LET last_name_part == LastNamePart(name)
      split == split_string_and_number(existing_nicknames[1])
      base_nickname == IF existing_nicknames # <<>> THEN split[1] ELSE last_name_part
      counter0 == IF existing_nicknames # <<>> THEN split[2] ELSE 0
  IN IF email_count > 1
     THEN LET counter == FirstFree(base_nickname, counter0, existing_nicknames)
              nickname == base_nickname \o Format02(counter + 1)
          IN [nickname |-> nickname, pool |-> Append(existing_nicknames, nickname)]
     ELSE [nickname |-> base_nickname, pool |-> Append(existing_nicknames, base_nickname)]

\* ------------------------------------------------------------ record codec
B64Prefix == <<"=", "?", "U", "T", "F", "-", "8", "?", "B", "?">>
QPrefix == <<"=", "?", "U", "T", "F", "-", "8", "?", "Q", "?">>
EncSuffix == <<"?", "=">>

Ok(v) == [kind |-> "ok", val |-> v]
Err(k) == [kind |-> k, val |-> <<>>]

\* The 64 symbols of the standard base64 alphabet, in value order.
B64Alphabet ==
  <<
    "A", "B", "C", "D", "E", "F", "G", "H", "I", "J", "K", "L", "M", "N", "O", "P",
    "Q", "R", "S", "T", "U", "V", "W", "X", "Y", "Z", "a", "b", "c", "d", "e", "f",
    "g", "h", "i", "j", "k", "l", "m", "n", "o", "p", "q", "r", "s", "t", "u", "v",
    "w", "x", "y", "z", "0", "1", "2", "3", "4", "5", "6", "7", "8", "9", "+", "/"
  >>

\* The printable ASCII characters, from byte 32 to byte 126; the grave
\* accent is written U+0060.
AsciiPrintable ==
  <<
    " ", "!", "\"", "#", "$", "%", "&", "'", "(", ")", "*", "+", ",", "-", ".", "/",
    "0", "1", "2", "3", "4", "5", "6", "7", "8", "9", ":", ";", "<", "=", ">", "?",
    "@", "A", "B", "C", "D", "E", "F", "G", "H", "I", "J", "K", "L", "M", "N", "O",
    "P", "Q", "R", "S", "T", "U", "V", "W", "X", "Y", "Z", "[", "\\", "]", "^", "_",
    "U+0060", "a", "b", "c", "d", "e", "f", "g", "h", "i", "j", "k", "l", "m", "n", "o",
    "p", "q", "r", "s", "t", "u", "v", "w", "x", "y", "z", "{", "|", "}", "~"
  >>

\* The position of x in seq (x is in seq).
IndexOf(seq, x) == CHOOSE i \in 1..Len(seq) : seq[i] = x

\* The character of a byte below 128; control characters other than tab and
\* newline are kept as their byte value.
AsciiChar(b) ==
  IF b >= 32 /\ b <= 126 THEN AsciiPrintable[b - 31]
  ELSE IF b = 9 THEN TAB ELSE IF b = 10 THEN NL ELSE b

\* String::from_utf8 on bytes: Ok when every byte is below 128.  A byte
\* from 128 up starts or continues a multi-byte sequence, which the model's
\* alphabet does not have: it is reported as not being UTF-8.
FromUtf8(bytes) ==
  IF \E i \in 1..Len(bytes) : bytes[i] >= 128 THEN Err("decode")
  ELSE Ok([i \in 1..Len(bytes) |-> AsciiChar(bytes[i])])

\* String::from_utf8_lossy: a byte from 128 up that is not part of a valid
\* sequence becomes U+FFFD.
FromUtf8Lossy(bytes) ==
  [i \in 1..Len(bytes) |-> IF bytes[i] >= 128 THEN "U+FFFD" ELSE AsciiChar(bytes[i])]

\* The bytes of one group of base64 symbols, given as their values: 4
\* symbols give 3 bytes, 3 give 2, 2 give 1.
B64Group(v) ==
  LET bits == v[1] * 262144 + v[2] * 4096
              + (IF Len(v) >= 3 THEN v[3] * 64 ELSE 0)
              + (IF Len(v) >= 4 THEN v[4] ELSE 0)
      b == <<bits \div 65536, (bits \div 256) % 256, bits % 256>>
  IN SubSeq(b, 1, Len(v) - 1)

\* Whether the bits of the last symbol of a short group that belong to no
\* byte are zero.
B64Canonical(v) ==
  CASE Len(v) = 4 -> TRUE
    [] Len(v) = 3 -> v[3] % 4 = 0
    [] Len(v) = 2 -> v[2] % 16 = 0
    [] OTHER -> FALSE

RECURSIVE B64Bytes(_)
\* The bytes of a sequence of symbol values, group by group.
B64Bytes(v) ==
  IF v = <<>> THEN <<>>
  ELSE IF Len(v) <= 4 THEN B64Group(v)
  ELSE B64Group(SubSeq(v, 1, 4)) \o B64Bytes(Drop(v, 5))

\* general_purpose::STANDARD.decode followed by String::from_utf8: the
\* length is a multiple of four, padding is one or two = at the end, every
\* other character is a symbol, and the unused bits of the last symbol are
\* zero; anything else is a decode error.
Base64Utf8(encoded) ==
  LET n == Len(encoded)
      pad == IF n >= 2 /\ encoded[n] = "=" /\ encoded[n - 1] = "=" THEN 2
             ELSE IF n >= 1 /\ encoded[n] = "=" THEN 1 ELSE 0
      body == SubSeq(encoded, 1, n - pad)
      symbols == {B64Alphabet[i] : i \in 1..64}
      v == [i \in 1..Len(body) |-> IndexOf(B64Alphabet, body[i]) - 1]
      rest == IF Len(body) % 4 = 0 THEN <<>>
              ELSE SubSeq(v, Len(body) - (Len(body) % 4) + 1, Len(body))
  IN IF n % 4 # 0 \/ (\E i \in 1..Len(body) : body[i] \notin symbols)
     THEN Err("decode")
     ELSE IF rest # <<>> /\ ~B64Canonical(rest) THEN Err("decode")
     ELSE FromUtf8(B64Bytes(v))

\* The value of a hexadecimal digit, -1 for any other character.
HexVal(c) ==
  IF c \in Digits THEN DigitVal(c)
  ELSE CASE c \in {"A", "a"} -> 10 [] c \in {"B", "b"} -> 11 [] c \in {"C", "c"} -> 12
         [] c \in {"D", "d"} -> 13 [] c \in {"E", "e"} -> 14 [] c \in {"F", "f"} -> 15
         [] OTHER -> -1

RECURSIVE QpBytes(_)
\* quoted_printable::decode in ParseMode::Robust on one line: = followed by
\* two hexadecimal digits is the byte they name, an = that is not is kept,
\* every other character stands for itself.
QpBytes(e) ==
  IF e = <<>> THEN <<>>
  ELSE IF e[1] = "=" /\ Len(e) >= 3 /\ HexVal(e[2]) >= 0 /\ HexVal(e[3]) >= 0
  THEN <<HexVal(e[2]) * 16 + HexVal(e[3])>> \o QpBytes(Drop(e, 4))
  ELSE <<IF e[1] = TAB THEN 9 ELSE IndexOf(AsciiPrintable, e[1]) + 31>>
         \o QpBytes(Tail(e))

\* qp_decode followed by String::from_utf8_lossy.
QpLossy(encoded) == Ok(FromUtf8Lossy(QpBytes(encoded)))

\* decode_if_encoded: Ok(string), Err("decode"), or Err("panic") when the
\* slice &s[10..s.len() - 2] has its start after its end.
decode_if_encoded(s0) ==
  LET s == TrimStart(s0) IN
  IF StartsWith(s, B64Prefix) /\ EndsWith(s, EncSuffix)
  THEN IF 10 > Len(s) - 2 THEN Err("panic")
       ELSE Base64Utf8(SubSeq(s, 11, Len(s) - 2))
  ELSE IF StartsWith(s, QPrefix) /\ EndsWith(s, EncSuffix)
  THEN IF 10 > Len(s) - 2 THEN Err("panic")
       ELSE QpLossy([i \in 1..(Len(s) - 12) |->
                       IF s[i + 10] = "_" THEN SPC ELSE s[i + 10]])
  ELSE Ok(s)

\* fields.get(i).unwrap_or(&"") (0-based i).
FieldOr(fields, i) == IF i + 1 <= Len(fields) THEN fields[i + 1] ELSE EmptyStr

APerson(nickname, name, mail, fcc, biography) ==
  [nickname |-> nickname, name |-> name, email |-> mail, fcc |-> fcc,
   biography |-> biography]

\* get_decoded_apersons: Ok(the APerson pushed) or the first field's error.
get_decoded_apersons(fields) ==
  LET d == [i \in 0..4 |-> decode_if_encoded(FieldOr(fields, i))] IN
  IF \E i \in 0..4 : d[i].kind # "ok"
  THEN Err(d[CHOOSE i \in 0..4 : d[i].kind # "ok" /\ \A j \in 0..(i - 1) : d[j].kind = "ok"].kind)
  ELSE Ok(APerson(d[0].val, d[1].val, d[2].val, d[3].val, d[4].val))

\* Most fields of a record: fields.len() > 5 is an error.
MaxFields == 5

\* The field-count test off by one: six fields pass.
TooManyFields_OffByOne(fields) == Len(fields) > MaxFields + 1

TooManyFields(fields) == Len(fields) > MaxFields

\* The state of load_addressbook_data: persons and combined_line, its error
\* ("none" while it runs), and for the record of what it did: srcs[k], the
\* physical lines (by index) persons[k] was built from; cur, the lines held in
\* combined_line; buffers, every buffer handed to convert_line_to_aperson.
LoadInit ==
  [persons |-> <<>>, combined_line |-> EmptyStr, err |-> "none",
   srcs |-> <<>>, cur |-> {}, buffers |-> <<>>]

\* convert_line_to_aperson(&mut persons, &mut combined_line).
convert_line_to_aperson(st) ==
  LET fields == SplitOn(st.combined_line, TAB)
      seen == [st EXCEPT !.buffers = Append(@, st.combined_line)]
  IN IF TooManyFields(fields)
     THEN [seen EXCEPT !.err = "too_many_fields"]
     ELSE LET r == get_decoded_apersons(fields) IN
          IF r.kind # "ok"
          THEN [seen EXCEPT !.err = r.kind]
          ELSE [seen EXCEPT !.persons = Append(@, r.val),
                            !.srcs = Append(@, st.cur),
                            !.combined_line = EmptyStr,
                            !.cur = {}]

TabCount(s) == Cardinality({i \in 1..Len(s) : s[i] = TAB})

ThreeSpaces == <<SPC, SPC, SPC>>

\* The continuation test without the tab count of the buffer.
IsContinuation_AnyBuffer(line, combined_line) == EndsWith(line, <<TAB>>)

\* Whether the line is appended without finalizing anything.
IsContinuation(line, combined_line) ==
  EndsWith(line, <<TAB>>) /\ TabCount(combined_line) < 4

\* Whether the buffer is finalized before the line is appended to it.
FlushesBefore(line) == ~StartsWith(line, ThreeSpaces)

\* One iteration of the loop over the lines of the file; i is the line's index.
LoadLine(st, i, line) ==
  LET add(t) == [t EXCEPT !.combined_line = @ \o line, !.cur = @ \cup {i}] IN
  IF IsContinuation(line, st.combined_line)
  THEN add(st)
  ELSE LET st1 == IF FlushesBefore(line) THEN convert_line_to_aperson(st) ELSE st IN
       IF st1.err # "none" THEN st1 ELSE convert_line_to_aperson(add(st1))

RECURSIVE LoadLines(_, _, _)
LoadLines(st, lines, i) ==
  IF i > Len(lines) \/ st.err # "none" THEN st
  ELSE LoadLines(LoadLine(st, i, lines[i]), lines, i + 1)

\* load_addressbook_data on a file that opened, given as its lines.
load_addressbook_data(lines) ==
  LET st == LoadLines(LoadInit, lines, 1) IN
  IF st.err = "none" /\ st.combined_line # EmptyStr
  THEN convert_line_to_aperson(st)
  ELSE st

RECURSIVE JoinTab(_)
JoinTab(fields) ==
  IF Len(fields) = 1 THEN fields[1] ELSE fields[1] \o <<TAB>> \o JoinTab(Tail(fields))

\* csv::Writer::write_record with delimiter tab, for fields that hold no
\* tab, double quote, CR or LF (the writer quotes no such field): one line.
write_record(fields) == JoinTab(fields)

\* Whether the sync write loop writes this record.
WritesRecord(ap) == ap.email # EmptyStr

RECURSIVE write_apeople(_)
\* The write loop of sync over apeople_clone: the lines written.
write_apeople(people) ==
  IF people = <<>> THEN <<>>
  ELSE LET p == Head(people) IN
       (IF WritesRecord(p)
        THEN <<write_record(<<p.nickname, p.name, p.email, p.fcc, p.biography>>)>>
        ELSE <<>>) \o write_apeople(Tail(people))

\* ------------------------------------------------------------ inputs
RECURSIVE SeqsUpTo(_, _)
\* The sequences over S of length at most n.
SeqsUpTo(S, n) ==
  IF n = 0 THEN {<<>>}
  ELSE LET shorter == SeqsUpTo(S, n - 1) IN
       shorter \cup {Append(q, x) : q \in {r \in shorter : Len(r) = n - 1}, x \in S}

S_JaneDoe == <<"J", "a", "n", "e", SPC, "D", "o", "e">>
S_Doe == <<"D", "o", "e">>
S_Doe01 == <<"D", "o", "e", "0", "1">>
S_Doe02 == <<"D", "o", "e", "0", "2">>
S_JD == <<"J", "D">>
S_VP == <<"V", "P">>

\* ------------------------------------------------------------ nickname harness
NkNames == {S_JaneDoe, S_Doe, EmptyStr, <<"A", "1">>, <<"A", "0">>, <<"B", SPC, "7">>}
NkNicks == {S_Doe01, S_Doe02, S_Doe, <<"0", "1">>, EmptyStr}

NickIdle ==
  /\ nk_name = EmptyStr /\ nk_count = 0 /\ nk_pool0 = <<>>
  /\ nk_prev = <<>> /\ nk_pool = <<>> /\ nk_out = <<>>

InitNick ==
  /\ nk_name \in NkNames
  /\ nk_count \in 1..MaxEmails
  /\ nk_pool0 \in SeqsUpTo(NkNicks, MaxPool)
  /\ nk_prev = nk_pool0
  /\ nk_pool = nk_pool0
  /\ nk_out = <<>>

\* The caller's loop: one generate_nickname call per email of the contact.
NickCall ==
  /\ Len(nk_out) < nk_count
  /\ LET r == generate_nickname(nk_name, nk_count, nk_pool) IN
       /\ nk_prev' = nk_pool
       /\ nk_pool' = r.pool
       /\ nk_out' = Append(nk_out, r.nickname)
  /\ UNCHANGED <<nk_name, nk_count, nk_pool0, codecVars, extractVars, compareVars, decodeVars, mainVars>>

\* ------------------------------------------------------------ codec harness
\* Field values of the records the round trip writes: free of tab and newline.
RtNames == {S_JaneDoe, EmptyStr}
RtFccs == {EmptyStr, <<"f">>}
RtNotes == {EmptyStr, S_VP, <<SPC, "v">>}
RtRecords ==
  {APerson(S_Doe, n, <<"x">>, f, b) : n \in RtNames, f \in RtFccs, b \in RtNotes}

\* Physical lines of the files loaded directly.
L_Full == <<"D", TAB, "J", TAB, "x", TAB, TAB, "v">>
L_EmptyNote == <<"E", TAB, "K", TAB, "y", TAB, "f", TAB>>
L_Partial == <<"P", TAB, "Q", TAB>>
L_Wrap == <<SPC, SPC, SPC, "w">>
L_Short == <<"S", TAB, "T", TAB, "z">>
L_Six == <<"a", TAB, "b", TAB, "c", TAB, "d", TAB, "e", TAB, "g">>
L_Blank == EmptyStr
RawLines == {L_Full, L_EmptyNote, L_Partial, L_Wrap, L_Short, L_Six, L_Blank}

CodecIdle ==
  /\ cd_mode = "idle" /\ cd_in = <<>> /\ cd_file = None /\ cd_out = None

InitCodec ==
  \/ /\ cd_mode = "records"
     /\ cd_in \in SeqsUpTo(RtRecords, MaxRecords)
     /\ cd_file = None
     /\ cd_out = None
  \/ /\ cd_mode = "file"
     /\ cd_in = <<>>
     /\ cd_file \in {Some(f) : f \in SeqsUpTo(RawLines, MaxLines)}
     /\ cd_out = None

\* The sync rewrite of .addressbook, applied to cd_in.
CodecWrite ==
  /\ cd_mode = "records" /\ cd_file = None
  /\ cd_file' = Some(write_apeople(cd_in))
  /\ UNCHANGED <<cd_mode, cd_in, cd_out, nickVars, extractVars, compareVars, decodeVars, mainVars>>

\* load_addressbook_data applied to the file.
CodecLoad ==
  /\ cd_file # None /\ cd_out = None
  /\ cd_out' = Some(load_addressbook_data(cd_file[1]))
  /\ UNCHANGED <<cd_mode, cd_in, cd_file, nickVars, extractVars, compareVars, decodeVars, mainVars>>


\* ------------------------------------------------------------ remote contacts
\* A Person of the People API, with the fields main.rs reads or writes; etag
\* stands for the fields it never names, which Person::default() leaves None
\* and clone() copies.
Person(resource_name, names, organizations, nicknames, email_addresses, biographies) ==
  [resource_name |-> resource_name, etag |-> None, names |-> names,
   organizations |-> organizations, nicknames |-> nicknames,
   email_addresses |-> email_addresses, biographies |-> biographies]

\* The sub-fields of the entries update_google_contacts builds; every one is
\* an Option.
NicknameFields == {"value", "metadata", "type_"}
NameFields ==
  {"display_name", "display_name_last_first", "family_name", "given_name",
   "honorific_prefix", "honorific_suffix", "metadata", "middle_name",
   "phonetic_family_name", "phonetic_full_name", "phonetic_given_name",
   "phonetic_honorific_prefix", "phonetic_honorific_suffix",
   "phonetic_middle_name", "unstructured_name"}
EmailFields == {"value", "metadata", "type_", "formatted_type", "display_name"}
BiographyFields == {"value", "metadata", "content_type"}

\* An entry with the given sub-fields set as in given and the others None.
Entry(fields, given) ==
  [f \in fields |-> IF f \in DOMAIN given THEN given[f] ELSE None]

\* Option<Vec<T>>::unwrap_or(Vec::new())
OrEmpty(optvec) == IF optvec = None THEN <<>> ELSE optvec[1]
\* Option<String>::unwrap_or_default()
OrDefault(optstr) == IF optstr = None THEN EmptyStr ELSE optstr[1]

\* get_gcontact_name
\* get_gcontact_name that looks at the organizations only when there is no
\* name entry.
get_gcontact_name_ByListOnly(person) ==
  LET names == OrEmpty(person.names)
      organizations == OrEmpty(person.organizations)
  IN IF names # <<>> THEN OrDefault(names[1].display_name)
     ELSE IF organizations = <<>> THEN EmptyStr
     ELSE OrDefault(organizations[1].name)

get_gcontact_name(person) ==
  LET names == OrEmpty(person.names)
      organizations == OrEmpty(person.organizations)
      gname == IF names = <<>> THEN EmptyStr ELSE OrDefault(names[1].display_name)
  IN IF gname = EmptyStr
     THEN IF organizations = <<>> THEN EmptyStr ELSE OrDefault(organizations[1].name)
     ELSE gname

\* get_gcontact_nickname
get_gcontact_nickname(person) ==
  LET nicknames == OrEmpty(person.nicknames) IN
  IF nicknames = <<>> THEN EmptyStr ELSE OrDefault(nicknames[1].value)

\* get_gcontact_biography
get_gcontact_biography(person) ==
  LET biographies == OrEmpty(person.biographies) IN
  IF biographies = <<>> THEN EmptyStr ELSE OrDefault(biographies[1].value)

HasEmail(person, e) ==
  \E k \in 1..Len(OrEmpty(person.email_addresses)) :
     OrEmpty(person.email_addresses)[k].value = Some(e)

\* get_related_gpersons: the references returned, as positions in gpersons.
get_related_gpersons(gpersons, e) ==
  SelectSeq([i \in 1..Len(gpersons) |-> i], LAMBDA i : HasEmail(gpersons[i], e))

\* get_related_apersons: the contacts referred to, in order.
get_related_apersons(people, email_to_find) ==
  SelectSeq(people, LAMBDA p : p.email = email_to_find)

\* remove_related_apersons: apeople.retain(|ap| !related_apeople.contains(&ap))
remove_related_apersons(people, related_apeople) ==
  SelectSeq(people, LAMBDA p : ~Contains(related_apeople, p))

\* apeople_clone.iter().find(|&ap| &ap.email == email)
FindAperson(people, e) ==
  LET r == get_related_apersons(people, e) IN IF r = <<>> THEN None ELSE Some(r[1])

\* list.as_ref().and_then(|n| n.get(0).and_then(|nn| nn.f.clone()))
FirstSub(list, f) ==
  IF list = None THEN None
  ELSE IF list[1] = <<>> THEN None
  ELSE list[1][1][f]

\* The entry built over the first entry of list: the sub-field main set to
\* Some(v), every other one taken from the first entry.
Superseded(fields, list, main, v) ==
  [f \in fields |-> IF f = main THEN Some(v) ELSE FirstSub(list, f)]

\* The Person update_google_contacts builds (new_gperson).
new_gperson(gperson_option, ap) ==
  IF gperson_option # None
  THEN LET person == gperson_option[1] IN
       [person EXCEPT
          !.nicknames =
             Some(<<Superseded(NicknameFields, person.nicknames, "value", ap.nickname)>>),
          !.names =
             Some(<<Superseded(NameFields, person.names, "display_name", ap.name)>>),
          !.email_addresses =
             Some(<<Superseded(EmailFields, person.email_addresses, "value", ap.email)>>),
          !.biographies =
             Some(<<Superseded(BiographyFields, person.biographies, "value",
                               ap.biography)>>)]
  ELSE LET words == SplitWhitespace(ap.name)
           first_name == IF Len(words) >= 2 THEN words[1] ELSE ap.name
           last_name == IF Len(words) >= 2 THEN words[Len(words)] ELSE EmptyStr
       IN Person(None,
                 Some(<<Entry(NameFields,
                              [display_name |-> Some(ap.name),
                               family_name |-> Some(last_name),
                               given_name |-> Some(first_name)])>>),
                 None,
                 Some(<<Entry(NicknameFields, [value |-> Some(ap.nickname)])>>),
                 Some(<<Entry(EmailFields, [value |-> Some(ap.email)])>>),
                 Some(<<Entry(BiographyFields, [value |-> Some(ap.biography)])>>))

\* FieldMask::from_str("nicknames,names,emailAddresses,biographies")
field_mask == {"nicknames", "names", "emailAddresses", "biographies"}

\* update_google_contacts without the test of resource_name: every request is
\* a create_contact.
update_google_contacts_AlwaysCreate(gperson_option, ap) ==
  LET p == new_gperson(gperson_option, ap) IN
  [op |-> "create", resource_name |-> None, person |-> Some(p), mask |-> field_mask]

\* update_google_contacts: the request it sends.
update_google_contacts(gperson_option, ap) ==
  LET p == new_gperson(gperson_option, ap) IN
  [op |-> IF p.resource_name # None THEN "update" ELSE "create",
   resource_name |-> p.resource_name,
   person |-> Some(p),
   mask |-> field_mask]

\* remove_related_gperson: the request it sends; None when the contact has
\* no resource_name (it then returns an error without calling the service).
remove_related_gperson(gperson) ==
  IF gperson.resource_name # None
  THEN Some([op |-> "delete", resource_name |-> gperson.resource_name, person |-> None])
  ELSE None

RECURSIVE init_person_lines(_, _, _, _, _)
\* The inner loop of init over one contact's emails: the lines written.
init_person_lines(emails, name, memo, email_count, existing_nicknames) ==
  IF emails = <<>> THEN <<>>
  ELSE LET email_address == OrDefault(Head(emails).value)
           g == generate_nickname(name, email_count, existing_nicknames)
       IN <<write_record(<<g.nickname, name, email_address, EmptyStr, memo>>)>>
          \o init_person_lines(Tail(emails), name, memo, email_count, g.pool)

RECURSIVE init_lines(_)
\* The loop of init over the connections: the lines written.
init_lines(conns) ==
  IF conns = <<>> THEN <<>>
  ELSE LET person == Head(conns)
           names == OrEmpty(person.names)
           organizations == OrEmpty(person.organizations)
           emails == OrEmpty(person.email_addresses)
           nickname_from_g == get_gcontact_nickname(person)
           existing_nicknames ==
             IF nickname_from_g # EmptyStr THEN <<nickname_from_g>> ELSE <<>>
       IN (IF names # <<>> \/ organizations # <<>>
           THEN init_person_lines(emails, get_gcontact_name(person),
                                  get_gcontact_biography(person), Len(emails),
                                  existing_nicknames)
           ELSE <<>>) \o init_lines(Tail(conns))

\* ------------------------------------------------------------ sync: classification
\* gperson_emails: every email value present on a remote contact.
gperson_emails(gpersons) ==
  UNION {{es[k].value[1] : k \in {j \in 1..Len(es) : es[j].value # None}} :
           es \in {OrEmpty(gpersons[i].email_addresses) : i \in 1..Len(gpersons)}}

\* aperson_emails
aperson_emails(people) == {people[i].email : i \in 1..Len(people)}

unique_to_gpersons(G, A) == G \ A
\* The local-only group without the difference: every local email.
unique_to_apeople_NoDifference(G, A) == A
unique_to_apeople(G, A) == A \ G
common_emails(G, A) == A \cap G

\* The adjusted local nickname of the common loop.
AdjustedNickname(ap, gnickname) ==
  LET anickname == split_string_and_number(ap.nickname)[1] IN
  IF anickname = LastNamePart(ap.name) THEN gnickname ELSE anickname

\* The identity test of the common loop without the comparison of the notes.
IsIdentical_IgnoresNote(ap, person) ==
  /\ ap.name = get_gcontact_name(person)
  /\ AdjustedNickname(ap, get_gcontact_nickname(person)) = get_gcontact_nickname(person)

\* Whether the common loop takes the pair as identical (continue, no prompt).
IsIdentical(ap, person) ==
  /\ ap.name = get_gcontact_name(person)
  /\ AdjustedNickname(ap, get_gcontact_nickname(person)) = get_gcontact_nickname(person)
  /\ ap.biography = get_gcontact_biography(person)

\* ------------------------------------------------------------ the run's inputs
E_x == <<"x">>
E_y == <<"y">>
E_w == <<"w">>

NameEntry(dn) == Entry(NameFields, [display_name |-> Some(dn)])
NicknameEntry(v) == Entry(NicknameFields, [value |-> Some(v)])
EmailEntry(v) == Entry(EmailFields, [value |-> Some(v)])
BiographyEntry(v) == Entry(BiographyFields, [value |-> Some(v)])

\* Jane Doe with nickname JD and note VP, on x, with an etag, an
\* organization and further sub-fields set on each first entry.
G_JaneVP ==
  [Person(Some(<<"p", "1">>),
          Some(<<Entry(NameFields,
                       [display_name |-> Some(S_JaneDoe), metadata |-> Some("mn"),
                        family_name |-> Some(S_Doe), honorific_prefix |-> Some("Dr"),
                        phonetic_full_name |-> Some("jein dou")])>>),
          Some(<<[name |-> Some(<<"A", "c">>)]>>),
          Some(<<Entry(NicknameFields,
                       [value |-> Some(S_JD), metadata |-> Some("mk"),
                        type_ |-> Some("DEFAULT")])>>),
          Some(<<Entry(EmailFields,
                       [value |-> Some(E_x), metadata |-> Some("me"),
                        type_ |-> Some("work")])>>),
          Some(<<Entry(BiographyFields,
                       [value |-> Some(S_VP), metadata |-> Some("mb"),
                        content_type |-> Some("TEXT_PLAIN")])>>))
     EXCEPT !.etag = Some("e1")]
\* Jane Doe with neither nickname nor note, on x.
G_JanePlain ==
  Person(Some(<<"p", "2">>), Some(<<NameEntry(S_JaneDoe)>>), None,
         None, Some(<<EmailEntry(E_x)>>), None)
\* An organization with three emails: y, w and the empty string.
G_Org ==
  Person(Some(<<"p", "3">>), None, Some(<<[name |-> Some(<<"A", "c">>)]>>),
         None, Some(<<EmailEntry(E_y), EmailEntry(E_w), EmailEntry(EmptyStr)>>), None)
\* A contact without resource_name, with an email entry without value, on w.
G_Bob ==
  Person(None, Some(<<NameEntry(<<"B", "o", "b", SPC, "7">>)>>), None,
         Some(<<NicknameEntry(<<"B">>)>>),
         Some(<<Entry(EmailFields, <<>>), EmailEntry(E_w)>>),
         None)
\* John Doe, on y, with no nickname and no note.
G_John ==
  Person(Some(<<"p", "5">>), Some(<<NameEntry(<<"J", "o", "h", "n", SPC>> \o S_Doe)>>),
         None, None, Some(<<EmailEntry(E_y)>>), None)
GPersons == {G_JaneVP, G_JanePlain, G_Org, G_Bob, G_John}

\* Doe / Jane Doe / x / (no fcc) / (no note): the line ends in a tab.
A_Doe == S_Doe \o <<TAB>> \o S_JaneDoe \o <<TAB>> \o E_x \o <<TAB, TAB>>
\* Doe01 / Jane Doe / x / f / VP
A_Doe01 == S_Doe01 \o <<TAB>> \o S_JaneDoe \o <<TAB>> \o E_x \o <<TAB, "f", TAB>> \o S_VP
\* Z / Zed / w / (no fcc) / n
A_Zed == <<"Z", TAB, "Z", "e", "d", TAB>> \o E_w \o <<TAB, TAB, "n">>
\* N / No / (no email) / (no fcc) / q
A_NoMail == <<"N", TAB, "N", "o", TAB, TAB, TAB, "q">>
ALines == {A_Doe, A_Doe01, A_Zed, A_NoMail, L_Six}

\* What the operator types at a prompt of sync, as input_select_source
\* reads it: g, a, anything else, or a read error.
Answers == {"g", "a", "other", "ioerr"}
\* How a call of the People API, or the writing of the file, ends.
Outcomes == {"ok", "fail"}

\* One entry of trace: a pair of the common loop taken up, a prompt printed,
\* a request to the People API (req; None when it failed before sending) and
\* how it ended (ok), a change of apeople (op), or the writing of the file.
\* l is the local contact concerned (None or Some), r the remote one, as its
\* position in connections (None or Some).
Ev(ev, phase, e, l, r, op, req, ok) ==
  [ev |-> ev, phase |-> phase, email |-> e, l |-> l, r |-> r, op |-> op,
   req |-> req, ok |-> ok]
Prompt(phase, e, l, r) == Ev("prompt", phase, e, l, r, "", None, TRUE)
Call(phase, e, l, r, req, ok) == Ev("call", phase, e, l, r, req.op, Some(req), ok)
Local(phase, e, l, r, op) == Ev("local", phase, e, l, r, op, None, TRUE)
Write(phase, ok) == Ev("write", phase, EmptyStr, None, None, "", None, ok)
\* The run given up at a prompt: the operator cancelled, or the answer could
\* not be read.
Stop(phase, ans) ==
  Ev("stop", phase, EmptyStr, None, None,
     IF ans = "ioerr" THEN "input_error" ELSE "cancel", None, TRUE)

\* ---------------------------------------------------------------------
\* The accessors applied to one Person.

S_Ac == <<"A", "c">>

XNames ==
  {None, Some(<<>>), Some(<<Entry(NameFields, <<>>)>>), Some(<<NameEntry(EmptyStr)>>),
   Some(<<NameEntry(S_JaneDoe)>>), Some(<<NameEntry(S_Doe), NameEntry(S_JaneDoe)>>)}
XOrganizations ==
  {None, Some(<<>>), Some(<<[name |-> None]>>), Some(<<[name |-> Some(S_Ac)]>>)}
XNicknames ==
  {None, Some(<<>>), Some(<<Entry(NicknameFields, <<>>)>>), Some(<<NicknameEntry(S_JD)>>)}
XBiographies == {None, Some(<<BiographyEntry(S_VP)>>)}

ExtractIdle == gx_person = None /\ gx_out = None

InitExtract ==
  /\ \E names \in XNames, organizations \in XOrganizations,
        nicknames \in XNicknames, biographies \in XBiographies :
       gx_person = Some(Person(None, names, organizations, nicknames, None, biographies))
  /\ gx_out = None

ExtractCall ==
  /\ gx_person # None /\ gx_out = None
  /\ gx_out' = Some([name |-> get_gcontact_name(gx_person[1]),
                     nickname |-> get_gcontact_nickname(gx_person[1]),
                     biography |-> get_gcontact_biography(gx_person[1])])
  /\ UNCHANGED <<gx_person, nickVars, codecVars, compareVars, decodeVars, mainVars>>

\* ---------------------------------------------------------------------
\* The comparison of the common loop applied to one pair.

S_R2D == <<"R", "2", "D">>
S_ArtR2D == <<"A", "r", "t", SPC>> \o S_R2D
S_Bob7 == <<"B", "o", "b", SPC, "7">>

CmNicknames ==
  {S_Doe, S_Doe01, S_R2D \o <<"2">>, S_R2D, <<"D", "2", "x">>, <<"7">>, S_JD, EmptyStr}
CmNames == {S_JaneDoe, S_ArtR2D, S_Bob7, EmptyStr}
CmNotes == {EmptyStr, S_VP}
CmPersons ==
  {Person(None, Some(<<NameEntry(n)>>), None, k, Some(<<EmailEntry(E_x)>>), None) :
     n \in {S_JaneDoe, S_ArtR2D}, k \in {None, Some(<<NicknameEntry(S_JD)>>)}}

CompareIdle == cm_ap = None /\ cm_person = None /\ cm_out = None

InitCompare ==
  /\ \E k \in CmNicknames, n \in CmNames, b \in CmNotes :
       cm_ap = Some(APerson(k, n, E_x, EmptyStr, b))
  /\ \E person \in CmPersons : cm_person = Some(person)
  /\ cm_out = None

\* One pass of the inner loop of the common group up to its continue.
Compare ==
  /\ cm_ap # None /\ cm_out = None
  /\ cm_out' = Some([anickname |->
                       AdjustedNickname(cm_ap[1], get_gcontact_nickname(cm_person[1])),
                     identical |-> IsIdentical(cm_ap[1], cm_person[1])])
  /\ UNCHANGED <<cm_ap, cm_person, nickVars, codecVars, extractVars, decodeVars, mainVars>>

\* ---------------------------------------------------------------------
\* decode_if_encoded applied to one field.

\* What stands between the prefix and the suffix of an encoded field.
DcPayloads ==
  {EmptyStr, <<"Q", "Q", "=", "=">>, <<"Q", "U", "I", "=">>, <<"Q", "U", "J", "D">>,
   <<"Q", "Q", "=">>, <<"Q", "R", "=", "=">>, <<"Q">>, <<"Q", "!", "=", "=">>,
   <<"/", "w", "=", "=">>, <<"a", "_", "b">>, <<"=", "4", "1">>, <<"=", "F", "F">>}
\* The fields in an encoded form, the prefix and the suffix apart or
\* overlapping in their = and ?.
DcEncoded ==
  {p \o e \o EncSuffix : p \in {B64Prefix, QPrefix}, e \in DcPayloads}
    \cup {B64Prefix \o <<"=">>, QPrefix \o <<"=">>}
\* Fields in no encoded form.
DcPlain ==
  {<<"p", "l", "a", "i", "n", SPC, "t", "e", "x", "t">>, <<SPC, "v">>, <<"v", SPC>>,
   <<TAB, "v">>, <<SPC, SPC, SPC, "w">>, EmptyStr, <<SPC>>, B64Prefix, EncSuffix,
   <<"x">> \o B64Prefix \o EncSuffix, QPrefix \o <<"a">>}
DcFields == DcPlain \cup DcEncoded \cup {<<SPC>> \o f : f \in DcEncoded}

DecodeIdle == dc_in = EmptyStr /\ dc_out = None

InitDecode == dc_in \in DcFields /\ dc_out = None

Decode ==
  /\ dc_out = None
  /\ dc_out' = Some(decode_if_encoded(dc_in))
  /\ UNCHANGED <<dc_in, nickVars, codecVars, extractVars, compareVars, mainVars>>

NoGroups == [g |-> {}, a |-> {}, c |-> {}]

MainIdle ==
  /\ sel = "idle" /\ pc = "idle" /\ exit_code = -1 /\ file0 = None /\ file = None
  /\ connections = None /\ apeople = <<>> /\ apeople_diarty = FALSE
  /\ groups = NoGroups /\ todo = NoGroups /\ email = None /\ aperson = None
  /\ related = <<>> /\ idx = 1 /\ trace = <<>>

InitMain ==
  /\ sel \in {"init", "sync"}
  /\ pc = "start"
  /\ exit_code = -1
  /\ file0 \in {None} \cup {Some(f) : f \in SeqsUpTo(ALines, MaxLocal)}
  /\ file = file0
  /\ connections \in {None} \cup {Some(c) : c \in SeqsUpTo(GPersons, MaxRemote)}
  /\ apeople = <<>>
  /\ apeople_diarty = FALSE
  /\ groups = NoGroups
  /\ todo = NoGroups
  /\ email = None
  /\ aperson = None
  /\ related = <<>>
  /\ idx = 1
  /\ trace = <<>>

\* The status of std::process::exit in the error arms.
FailureStatus == 1

\* std::process::exit(code)
Exit(code) ==
  /\ pc' = "exit"
  /\ exit_code' = code

\* main runs to its end.
Return ==
  /\ pc' = "done"
  /\ exit_code' = 0

\* An Err arm that reports the error and goes on with the next contact.
OnApiError_Continues ==
  /\ idx' = idx + 1
  /\ UNCHANGED <<pc, exit_code, apeople, apeople_diarty>>

\* The Err arm of a People API result in the loops of sync: report, exit(1).
OnApiError ==
  /\ Exit(1)
  /\ UNCHANGED <<apeople, apeople_diarty, idx>>

\* The rewrite made whatever the flag says.
RewriteNeeded_Always == TRUE

\* if apeople_diarty { ... }: whether sync rewrites the file.
RewriteNeeded == apeople_diarty

Others == <<nickVars, codecVars, extractVars, compareVars, decodeVars, inputVars>>

\* ------------------------------------------------------------ init
\* What read_line gives at the overwrite confirmation: None for Err, else
\* Some of the line read, its newline included (the empty line at end of
\* input).
InitLines ==
  {<<"y", NL>>, <<SPC, "Y", TAB, NL>>, <<"n", NL>>, <<"y", "e", "s", NL>>, <<NL>>,
   <<>>}
InitInputs == {None} \cup {Some(line) : line \in InitLines}

\* The line read at a prompt.
Answer(phase, input) == Ev("answer", phase, EmptyStr, None, None, "", input, TRUE)

\* The confirmation that accepts every line starting with y.
IsYes_StartsWithY(line) ==
  LET t == ToLowercase(Trim(line)) IN t # <<>> /\ t[1] = "y"

\* input.trim().to_lowercase() != "y", negated.
IsYes(line) == ToLowercase(Trim(line)) = <<"y">>

\* What a failed writing of the file (the writer cannot be created, or a
\* write or the flush fails) may leave on disk, lines being what was to be
\* written: the old file, or the start of the new one.
FailedWrite(old, lines) == {old} \cup {Some(SubSeq(lines, 1, k)) : k \in 0..Len(lines)}

\* Select::Init up to the creation of the writer: the overwrite confirmation
\* when the file exists.
InitConfirm ==
  /\ sel = "init" /\ pc = "start"
  /\ IF file = None
     THEN /\ pc' = "init_write"
          /\ UNCHANGED <<exit_code, trace>>
     ELSE \E input \in InitInputs :
            LET asked == Append(Append(trace, Prompt("init", EmptyStr, None, None)),
                                Answer("init", input))
            IN IF input = None
               THEN /\ trace' = Append(asked, Stop("init", "ioerr"))
                    /\ Exit(1)
               ELSE IF IsYes(input[1])
               THEN /\ trace' = asked
                    /\ pc' = "init_write" /\ UNCHANGED exit_code
               ELSE /\ trace' = Append(asked, Stop("init", "other"))
                    /\ Exit(1)
  /\ UNCHANGED <<file, apeople, apeople_diarty, groups, loopVars, Others>>

\* Select::Init from the creation of the writer to the end of main.
InitWrite ==
  /\ sel = "init" /\ pc = "init_write"
  /\ \E out \in Outcomes :
       LET lines == init_lines(OrEmpty(connections)) IN
       IF out = "ok"
       THEN /\ file' = Some(lines)
            /\ trace' = Append(trace, Write("init", TRUE))
            /\ Return
       ELSE /\ file' \in FailedWrite(file, lines)
            /\ trace' = Append(trace, Write("init", FALSE))
            /\ Exit(1)
  /\ UNCHANGED <<apeople, apeople_diarty, groups, loopVars, Others>>

\* ------------------------------------------------------------ sync
\* The three groups, from the two email sets.
Classify(G, A) ==
  [g |-> unique_to_gpersons(G, A), a |-> unique_to_apeople(G, A),
   c |-> common_emails(G, A)]

\* Sync once load_addressbook_data has returned st: exit on its error or on
\* connections being None, else take the contacts and classify the emails.
SyncLoaded(st) ==
  IF st.err = "panic"
  THEN Exit(101) /\ UNCHANGED <<apeople, groups, todo>>
  ELSE IF st.err # "none"
  THEN Exit(1) /\ UNCHANGED <<apeople, groups, todo>>
  ELSE IF connections = None
  THEN Exit(1) /\ apeople' = st.persons /\ UNCHANGED <<groups, todo>>
  ELSE /\ pc' = "remote_only"
       /\ apeople' = st.persons
       /\ groups' = Classify(gperson_emails(connections[1]), aperson_emails(apeople'))
       /\ todo' = groups'
       /\ UNCHANGED exit_code

\* Select::Sync up to the first loop: the file is loaded, the remote list
\* taken, the emails classified.
SyncStart ==
  /\ sel = "sync" /\ pc = "start"
  /\ IF file = None
     THEN Exit(1) /\ UNCHANGED <<apeople, groups, todo>>
     ELSE SyncLoaded(load_addressbook_data(file[1]))
  /\ UNCHANGED <<file, apeople_diarty, email, aperson, related, idx, trace, Others>>

\* for email in unique_to_gpersons: the next email, up to the inner loop.
RemoteOnlyPick ==
  /\ pc = "remote_only" /\ idx > Len(related)
  /\ \E e \in todo.g :
       /\ todo' = [todo EXCEPT !.g = @ \ {e}]
       /\ email' = Some(e)
       /\ related' = IF e = EmptyStr THEN <<>>
                     ELSE get_related_gpersons(connections[1], e)
       /\ idx' = 1
  /\ UNCHANGED <<pc, exit_code, file, apeople, apeople_diarty, groups, aperson, trace, Others>>

\* One iteration of the inner loop over related_gpersons.
RemoteOnlyStep ==
  /\ pc = "remote_only" /\ idx <= Len(related)
  /\ \E ans \in Answers, out \in Outcomes :
       LET i == related[idx]
           gperson == connections[1][i]
           e == email[1]
           gname == get_gcontact_name(gperson)
           asked == Append(trace, Prompt("remote_only", e, None, Some(i)))
           req == remove_related_gperson(gperson)
           nickname == generate_nickname(gname, 1, <<>>).nickname
           adopted == APerson(nickname, gname, e, EmptyStr, get_gcontact_biography(gperson))
       IN IF ans \in {"other", "ioerr"}
          THEN /\ Exit(0) /\ trace' = Append(asked, Stop(pc, ans))
               /\ UNCHANGED <<apeople, apeople_diarty, idx>>
          ELSE IF ans = "g" /\ req = None
          THEN /\ OnApiError
               /\ trace' = Append(asked, Ev("call", "remote_only", e, None, Some(i),
                                             "delete", None, FALSE))
          ELSE IF ans = "g" /\ out = "fail"
          THEN /\ OnApiError
               /\ trace' = Append(asked, Call("remote_only", e, None, Some(i), req[1], FALSE))
          ELSE IF ans = "g"
          THEN /\ trace' = Append(asked, Call("remote_only", e, None, Some(i), req[1], TRUE))
               /\ idx' = idx + 1
               /\ UNCHANGED <<pc, exit_code, apeople, apeople_diarty>>
          ELSE /\ apeople' = Append(apeople, adopted)
               /\ apeople_diarty' = TRUE
               /\ trace' = Append(asked, Local("remote_only", e, Some(adopted), Some(i), "adopt"))
               /\ idx' = idx + 1
               /\ UNCHANGED <<pc, exit_code>>
  /\ UNCHANGED <<file, groups, todo, email, aperson, related, Others>>

RemoteOnlyEnd ==
  /\ pc = "remote_only" /\ idx > Len(related) /\ todo.g = {}
  /\ pc' = "local_only"
  /\ email' = None /\ related' = <<>> /\ idx' = 1
  /\ UNCHANGED <<exit_code, file, apeople, apeople_diarty, groups, todo, aperson, trace, Others>>

\* for email in unique_to_apeople: the next email, up to the inner loop.
LocalOnlyPick ==
  /\ pc = "local_only" /\ idx > Len(related)
  /\ \E e \in todo.a :
       /\ todo' = [todo EXCEPT !.a = @ \ {e}]
       /\ email' = Some(e)
       /\ related' = IF e = EmptyStr THEN <<>> ELSE get_related_apersons(apeople, e)
       /\ idx' = 1
  /\ UNCHANGED <<pc, exit_code, file, apeople, apeople_diarty, groups, aperson, trace, Others>>

\* One iteration of the inner loop over related_apeople.
LocalOnlyStep ==
  /\ pc = "local_only" /\ idx <= Len(related)
  /\ \E ans \in Answers, out \in Outcomes :
       LET ap == related[idx]
           e == email[1]
           asked == Append(trace, Prompt("local_only", e, Some(ap), None))
           req == update_google_contacts(None, ap)
       IN IF ans \in {"other", "ioerr"}
          THEN /\ Exit(0) /\ trace' = Append(asked, Stop(pc, ans))
               /\ UNCHANGED <<apeople, apeople_diarty, idx>>
          ELSE IF ans = "g" /\ out = "fail"
          THEN /\ OnApiError
               /\ trace' = Append(asked, Call("local_only", e, Some(ap), None, req, FALSE))
          ELSE IF ans = "g"
          THEN /\ trace' = Append(asked, Call("local_only", e, Some(ap), None, req, TRUE))
               /\ idx' = idx + 1
               /\ UNCHANGED <<pc, exit_code, apeople, apeople_diarty>>
          ELSE /\ apeople' = remove_related_apersons(apeople, related)
               /\ apeople_diarty' = TRUE
               /\ trace' = Append(asked, Local("local_only", e, Some(ap), None, "delete"))
               /\ idx' = idx + 1
               /\ UNCHANGED <<pc, exit_code>>
  /\ UNCHANGED <<file, groups, todo, email, aperson, related, Others>>

LocalOnlyEnd ==
  /\ pc = "local_only" /\ idx > Len(related) /\ todo.a = {}
  /\ pc' = "common"
  /\ email' = None /\ related' = <<>> /\ idx' = 1
  /\ UNCHANGED <<exit_code, file, apeople, apeople_diarty, groups, todo, aperson, trace, Others>>

\* for email in common_emails: the next email, up to the inner loop.
CommonPick ==
  /\ pc = "common" /\ idx > Len(related)
  /\ \E e \in todo.c :
       /\ todo' = [todo EXCEPT !.c = @ \ {e}]
       /\ email' = Some(e)
       /\ aperson' = FindAperson(apeople, e)
       /\ related' = IF FindAperson(apeople, e) = None THEN <<>>
                     ELSE get_related_gpersons(connections[1], e)
       /\ idx' = 1
  /\ UNCHANGED <<pc, exit_code, file, apeople, apeople_diarty, groups, trace, Others>>

\* One iteration of the inner loop over related_persons.
CommonStep ==
  /\ pc = "common" /\ idx <= Len(related)
  /\ \E ans \in Answers, out \in Outcomes :
       LET i == related[idx]
           person == connections[1][i]
           ap == aperson[1]
           e == email[1]
           gname == get_gcontact_name(person)
           seen == Append(trace, Ev("pair", "common", e, Some(ap), Some(i), "", None, TRUE))
           asked == Append(seen, Prompt("common", e, Some(ap), Some(i)))
           req == update_google_contacts(Some(person), ap)
           nickname == generate_nickname(gname, 1, <<>>).nickname
           new == APerson(nickname, gname, e, ap.fcc, get_gcontact_biography(person))
       IN IF IsIdentical(ap, person)
          THEN /\ trace' = seen
               /\ idx' = idx + 1
               /\ UNCHANGED <<pc, exit_code, apeople, apeople_diarty>>
          ELSE IF ans \in {"other", "ioerr"}
          THEN /\ Exit(0) /\ trace' = Append(asked, Stop(pc, ans))
               /\ UNCHANGED <<apeople, apeople_diarty, idx>>
          ELSE IF ans = "g"
          THEN /\ apeople' = Append(remove_related_apersons(apeople, <<ap>>), new)
               /\ apeople_diarty' = TRUE
               /\ trace' = Append(asked, Local("common", e, Some(new), Some(i), "overwrite"))
               /\ idx' = idx + 1
               /\ UNCHANGED <<pc, exit_code>>
          ELSE IF out = "fail"
          THEN /\ OnApiError
               /\ trace' = Append(asked, Call("common", e, Some(ap), Some(i), req, FALSE))
          ELSE /\ trace' = Append(asked, Call("common", e, Some(ap), Some(i), req, TRUE))
               /\ idx' = idx + 1
               /\ UNCHANGED <<pc, exit_code, apeople, apeople_diarty>>
  /\ UNCHANGED <<file, groups, todo, email, aperson, related, Others>>

CommonEnd ==
  /\ pc = "common" /\ idx > Len(related) /\ todo.c = {}
  /\ pc' = "finish"
  /\ email' = None /\ related' = <<>> /\ idx' = 1
  /\ UNCHANGED <<exit_code, file, apeople, apeople_diarty, groups, todo, aperson, trace, Others>>

\* if apeople_diarty { rewrite .addressbook }, and the end of main.
Finish ==
  /\ pc = "finish"
  /\ \E out \in Outcomes :
       LET lines == write_apeople(apeople) IN
       IF ~RewriteNeeded
       THEN Return /\ UNCHANGED <<file, trace>>
       ELSE IF out = "ok"
       THEN /\ file' = Some(lines)
            /\ trace' = Append(trace, Write("finish", TRUE))
            /\ Return
       ELSE /\ file' \in FailedWrite(file, lines)
            /\ trace' = Append(trace, Write("finish", FALSE))
            /\ Exit(1)
  /\ UNCHANGED <<apeople, apeople_diarty, groups, loopVars, Others>>

NextMain ==
  \/ InitConfirm \/ InitWrite
  \/ SyncStart
  \/ RemoteOnlyPick \/ RemoteOnlyStep \/ RemoteOnlyEnd
  \/ LocalOnlyPick \/ LocalOnlyStep \/ LocalOnlyEnd
  \/ CommonPick \/ CommonStep \/ CommonEnd
  \/ Finish

\* ---------------------------------------------------------------------
\* The program run a second time, as sync, after a first run that returned.

\* R2 / Jane Doe / x / (no fcc) / (no note): a nickname with a digit that was
\* not derived from the name.
A_R2 == <<"R", "2", TAB>> \o S_JaneDoe \o <<TAB>> \o E_x \o <<TAB, TAB>>

TwiceFiles == {None, Some(<<A_Zed>>), Some(<<A_Doe01>>), Some(<<A_R2>>)}
TwicePersons == {G_JaneVP, G_JanePlain, G_Org, G_Bob}

InitTwice ==
  /\ sel \in {"init", "sync"}
  /\ pc = "start"
  /\ exit_code = -1
  /\ file0 \in TwiceFiles
  /\ file = file0
  /\ connections \in {Some(c) : c \in SeqsUpTo(TwicePersons, MaxRemote)}
  /\ apeople = <<>>
  /\ apeople_diarty = FALSE
  /\ groups = NoGroups
  /\ todo = NoGroups
  /\ email = None
  /\ aperson = None
  /\ related = <<>>
  /\ idx = 1
  /\ trace = <<>>

\* The start of the second run, in the trace.
Rerun == Ev("run", "start", EmptyStr, None, None, "", None, TRUE)

\* The contact list of the service after the request req, sent as the k-th
\* event of the run, has succeeded: delete_contact removes the contact of
\* that resource name, update_contact puts the Person sent in its place (the
\* fields the mask names are all that differ), create_contact adds the
\* Person sent under a resource name of the service's choosing.
Served(conns, req, k) ==
  CASE req.op = "delete" ->
         SelectSeq(conns, LAMBDA p : p.resource_name # req.resource_name)
    [] req.op = "update" ->
         [i \in 1..Len(conns) |->
            IF conns[i].resource_name = req.resource_name THEN req.person[1]
            ELSE conns[i]]
    [] req.op = "create" ->
         Append(conns, [req.person[1] EXCEPT
                          !.resource_name = Some(<<"c">> \o DecimalDigits(k))])

RECURSIVE ServedAll(_, _, _)
\* The contact list after the successful requests of events k.. of tr.
ServedAll(conns, tr, k) ==
  IF k > Len(tr) THEN conns
  ELSE IF tr[k].ev = "call" /\ tr[k].ok /\ tr[k].req # None
  THEN ServedAll(Served(conns, tr[k].req[1], k), tr, k + 1)
  ELSE ServedAll(conns, tr, k + 1)

\* main is started again with sync once the first run has returned: the
\* file is as the first run left it, the service lists the contacts as the
\* first run's requests left them.
SecondRun ==
  /\ pc = "done"
  /\ \A k \in 1..Len(trace) : trace[k].ev # "run"
  /\ sel' = "sync" /\ pc' = "start" /\ exit_code' = -1
  /\ file0' = file
  /\ connections' = IF connections = None THEN None
                    ELSE Some(ServedAll(connections[1], trace, 1))
  /\ apeople' = <<>> /\ apeople_diarty' = FALSE
  /\ groups' = NoGroups /\ todo' = NoGroups
  /\ email' = None /\ aperson' = None /\ related' = <<>> /\ idx' = 1
  /\ trace' = Append(trace, Rerun)
  /\ UNCHANGED <<file, nickVars, codecVars, extractVars, compareVars, decodeVars>>

\* ------------------------------------------------------------ specifications
\* A run of main.
Init == InitMain /\ NickIdle /\ CodecIdle /\ ExtractIdle /\ CompareIdle /\ DecodeIdle
Next == NextMain
Spec == Init /\ [][Next]_vars
\* Successive generate_nickname calls.
InitNickOnly == InitNick /\ CodecIdle /\ ExtractIdle /\ CompareIdle /\ MainIdle /\ DecodeIdle
NextNick == NickCall
SpecNick == InitNickOnly /\ [][NextNick]_vars
\* The sync rewrite and load_addressbook_data.
InitCodecOnly == InitCodec /\ NickIdle /\ ExtractIdle /\ CompareIdle /\ MainIdle /\ DecodeIdle
NextCodec == CodecWrite \/ CodecLoad
SpecCodec == InitCodecOnly /\ [][NextCodec]_vars
\* get_gcontact_name, get_gcontact_nickname and get_gcontact_biography.
InitExtractOnly == InitExtract /\ NickIdle /\ CodecIdle /\ CompareIdle /\ MainIdle /\ DecodeIdle
NextExtract == ExtractCall
SpecExtract == InitExtractOnly /\ [][NextExtract]_vars
\* The comparison of a local and a remote contact in the common loop.
InitCompareOnly == InitCompare /\ NickIdle /\ CodecIdle /\ ExtractIdle /\ MainIdle /\ DecodeIdle
NextCompare == Compare
SpecCompare == InitCompareOnly /\ [][NextCompare]_vars
\* Two runs of main in a row.
InitTwiceOnly ==
  InitTwice /\ NickIdle /\ CodecIdle /\ ExtractIdle /\ CompareIdle /\ DecodeIdle
NextTwice == NextMain \/ SecondRun
SpecTwice == InitTwiceOnly /\ [][NextTwice]_vars
\* decode_if_encoded.
InitDecodeOnly ==
  InitDecode /\ NickIdle /\ CodecIdle /\ ExtractIdle /\ CompareIdle /\ MainIdle
NextDecode == Decode
SpecDecode == InitDecodeOnly /\ [][NextDecode]_vars

\* ------------------------------------------------------------ properties
Range(seq) == {seq[i] : i \in 1..Len(seq)}
HasDigit(s) == \E i \in 1..Len(s) : s[i] \in Digits
HasTab(s) == \E i \in 1..Len(s) : s[i] = TAB

\* The five fields of a record joined by tabs.
LineOf(p) ==
  p.nickname \o <<TAB>> \o p.name \o <<TAB>> \o p.email \o <<TAB>> \o p.fcc
    \o <<TAB>> \o p.biography

\* The positions of trace that hold an event of the kind.
EventsAt(kind) == {k \in 1..Len(trace) : trace[k].ev = kind}

\* ---- C1
\* C1: for every sequence of local contacts with non-empty emails and fields
\* free of tab and newline, the sync rewrite followed by load_addressbook_data
\* gives back the same sequence: same records, same order, none extra, none
\* missing.
C1_RoundTrip ==
  (/\ cd_mode = "records" /\ cd_out # None
   /\ \A i \in 1..Len(cd_in) :
        /\ cd_in[i].email # EmptyStr
        /\ \A f \in {cd_in[i].nickname, cd_in[i].name, cd_in[i].email,
                     cd_in[i].fcc, cd_in[i].biography} : ~HasTab(f))
  => /\ cd_out[1].err = "none"
     /\ cd_out[1].persons = cd_in

\* ---- C2
\* The emails of the records the file holds, as load_addressbook_data gives them.
LocalEmailsOf(lines) == {p.email : p \in Range(load_addressbook_data(lines).persons)}
\* The email values the remote contacts carry.
RemoteEmailsOf(conns) ==
  {o[1] : o \in UNION {{en.value : en \in Range(OrEmpty(p.email_addresses))} :
                          p \in Range(conns)} \ {None}}

\* The run has classified the emails.
Classified ==
  /\ sel = "sync" /\ pc # "start" /\ file0 # None /\ connections # None
  /\ load_addressbook_data(file0[1]).err = "none"

\* C2: the three email groups of sync (remote-only g, local-only a, common c)
\* are pairwise disjoint, their union is the union of the local and the
\* remote email set, each lies on the side its name says; local {a,b,c} and
\* remote {b,c,d} give remote-only {d}, local-only {a}, common {b,c}.
C2_GroupsPartition ==
  /\ Classified =>
       LET A == LocalEmailsOf(file0[1])
           G == RemoteEmailsOf(connections[1])
       IN /\ groups.g \cap groups.a = {}
          /\ groups.g \cap groups.c = {}
          /\ groups.a \cap groups.c = {}
          /\ groups.g \cup groups.a \cup groups.c = A \cup G
          /\ groups.g \subseteq G /\ groups.a \subseteq A
          /\ groups.c \subseteq A \cap G
  /\ Classify({<<"b">>, <<"c">>, <<"d">>}, {<<"a">>, <<"b">>, <<"c">>})
       = [g |-> {<<"d">>}, a |-> {<<"a">>}, c |-> {<<"b">>, <<"c">>}]

\* A classification with none of the three groups empty.
C2_AllGroupsInhabited ==
  /\ Classified
  /\ groups.g # {} /\ groups.a # {} /\ groups.c # {}

\* ---- C3
\* C3: from an empty pool, the successive generate_nickname calls for one
\* display name with email_count = N return, for N > 1, pairwise distinct
\* nicknames, which for a last name token T without digits are T01, T02, ...
\* in call order; for N = 1 the result is T.
C3_SuccessiveNicknames ==
  (nk_count >= 1 /\ nk_pool0 = <<>>) =>
    LET T == LastNamePart(nk_name)
        n == Len(nk_out)
    IN /\ nk_count > 1 =>
            /\ \A i, j \in 1..n : i # j => nk_out[i] # nk_out[j]
            /\ ~HasDigit(T) =>
                 \A i \in 1..n : i <= 9 => nk_out[i] = T \o <<"0", DigitChar(i)>>
       /\ nk_count = 1 => \A i \in 1..n : nk_out[i] = T

\* Three calls for Jane Doe with email_count = 3 have returned.
C3_ThreeForJaneDoe ==
  /\ nk_pool0 = <<>> /\ nk_name = S_JaneDoe /\ nk_count = 3
  /\ nk_out = <<S_Doe01, S_Doe02, S_Doe \o <<"0", "3">>>>

\* ---- C4
\* C4: a generate_nickname call with email_count > 1 returns a nickname that
\* was not in the pool before the call and leaves the pool as the old pool
\* with that nickname appended; pool [Doe01] and name Jane Doe give Doe02.
C4_FreshAndAppended ==
  /\ (nk_count > 1 /\ nk_out # <<>>) =>
       LET nickname == nk_out[Len(nk_out)] IN
       /\ ~Contains(nk_prev, nickname)
       /\ nk_pool = nk_prev \o <<nickname>>
  /\ (/\ nk_count > 1 /\ nk_out # <<>>
      /\ nk_name = S_JaneDoe /\ nk_pool0 = <<S_Doe01>>) => nk_out[1] = S_Doe02

\* The call for Jane Doe on the pool [Doe01] has returned Doe02.
C4_Doe02AfterDoe01 ==
  /\ nk_name = S_JaneDoe /\ nk_pool0 = <<S_Doe01>> /\ nk_count = 2
  /\ nk_out = <<S_Doe02>> /\ nk_pool = <<S_Doe01, S_Doe02>>

\* ---- C5
\* The events after the pair event at k that belong to that pair.
OfPair(k, kind) ==
  {j \in (k + 1)..Len(trace) :
     /\ trace[j].ev = kind
     /\ \A m \in (k + 1)..j : trace[m].ev \notin {"pair", "write"}}

\* Same display name, adjusted local nickname equal to the remote nickname,
\* same note.
SameContact(L, R) ==
  LET stripped == split_string_and_number(L.nickname)[1]
      tokens == SplitWhitespace(L.name)
      last == IF tokens = <<>> THEN Unknown ELSE tokens[Len(tokens)]
      adjusted == IF stripped = last THEN get_gcontact_nickname(R) ELSE stripped
  IN /\ L.name = get_gcontact_name(R)
     /\ adjusted = get_gcontact_nickname(R)
     /\ L.biography = get_gcontact_biography(R)

L_DoeJane == APerson(S_Doe, S_JaneDoe, E_x, EmptyStr, EmptyStr)

\* C5: in the common phase, for the local contact L chosen for a common email
\* and each remote contact R with that email: when the names are equal, the
\* adjusted local nickname equals R's nickname and the notes are equal, there
\* is no prompt and no mutation of either side for the pair; otherwise there
\* is exactly one prompt for the pair (so for local Doe / Jane Doe / no note
\* against remote JD / Jane Doe / VP).
C5_CommonPair ==
  \A k \in EventsAt("pair") :
    LET L == trace[k].l[1]
        R == connections[1][trace[k].r[1]]
    IN /\ L.email = trace[k].email /\ HasEmail(R, trace[k].email)
       /\ IF SameContact(L, R)
          THEN /\ OfPair(k, "prompt") = {}
               /\ OfPair(k, "local") = {}
               /\ OfPair(k, "call") = {}
          ELSE Cardinality(OfPair(k, "prompt")) = 1
       /\ (L = L_DoeJane /\ R = G_JaneVP) => Cardinality(OfPair(k, "prompt")) = 1

\* Doe / Jane Doe was paired with the plain remote Jane Doe without a prompt
\* and with the remote JD / Jane Doe / VP with one.
C5_OneSilentOnePrompted ==
  /\ \E k \in EventsAt("pair") :
       /\ trace[k].l = Some(L_DoeJane)
       /\ connections[1][trace[k].r[1]] = G_JanePlain
       /\ OfPair(k, "prompt") = {}
  /\ \E k \in EventsAt("pair") :
       /\ trace[k].l = Some(L_DoeJane)
       /\ connections[1][trace[k].r[1]] = G_JaneVP
       /\ Cardinality(OfPair(k, "prompt")) = 1

\* ---- C6
\* A record line with an empty note: four tabs, the last one ending the line.
IsEmptyNoteLine(line) == TabCount(line) = 4 /\ line[Len(line)] = TAB
\* A line that is a record by itself: no continuation mark, at most five fields.
IsRecordLine(line) == TabCount(line) <= 4 /\ ~StartsWith(line, ThreeSpaces)
\* The loader's state when it comes to line i.
Before(lines, i) == LoadLines(LoadInit, SubSeq(lines, 1, i - 1), 1)

\* C6: a record line with an empty note, reached while the record buffer is
\* empty (fewer than 4 tabs), that is the last line of the file or is
\* followed by a last line that is a record by itself, is parsed into exactly
\* one record, made of that line alone and with an empty note.
C6_EmptyNoteOneRecord ==
  (cd_mode = "file" /\ cd_out # None) =>
    LET lines == cd_file[1]
        out == cd_out[1]
    IN \A i \in 1..Len(lines) :
         (/\ IsEmptyNoteLine(lines[i])
          /\ Before(lines, i).err = "none"
          /\ Before(lines, i).combined_line = EmptyStr
          /\ \/ i = Len(lines)
             \/ i + 1 = Len(lines) /\ IsRecordLine(lines[i + 1]))
         => /\ out.err = "none"
            /\ Cardinality({k \in 1..Len(out.persons) : i \in out.srcs[k]}) = 1
            /\ \A k \in 1..Len(out.persons) :
                 i \in out.srcs[k] =>
                   /\ out.srcs[k] = {i}
                   /\ out.persons[k].biography = EmptyStr
                   /\ LineOf(out.persons[k]) = lines[i]

\* An empty-note line followed by a full record line was loaded as two records.
C6_EmptyNoteThenFull ==
  /\ cd_mode = "file" /\ cd_file = Some(<<L_EmptyNote, L_Full>>) /\ cd_out # None
  /\ Len(cd_out[1].persons) = 2
  /\ cd_out[1].persons[1].biography = EmptyStr

\* ---- C7
\* Some buffer handed to convert_line_to_aperson has more than five fields.
Oversize(lines) ==
  \E b \in Range(load_addressbook_data(lines).buffers) : TabCount(b) >= 5

\* C7: when a finalized buffer of the file has more than five tab-separated
\* fields, parsing ends in the format error and the sync run exits with
\* status 1 as its first step: no classification, no prompt, no remote call,
\* no local mutation, no write, and the records parsed before are not taken.
C7_TooManyFieldsAborts ==
  (sel = "sync" /\ file0 # None /\ Oversize(file0[1])) =>
    /\ load_addressbook_data(file0[1]).err = "too_many_fields"
    /\ pc \in {"start", "exit"}
    /\ pc = "exit" => exit_code = 1
    /\ trace = <<>>
    /\ groups = NoGroups /\ todo = NoGroups
    /\ apeople = <<>> /\ ~apeople_diarty
    /\ file = file0

\* Sync has exited on a file whose second line has six fields, records
\* having been parsed before it.
C7_AbortedAfterGoodRecord ==
  /\ sel = "sync" /\ pc = "exit" /\ exit_code = 1
  /\ file0 = Some(<<A_Doe01, L_Six>>)
  /\ connections # None
  /\ Len(load_addressbook_data(file0[1]).persons) >= 1

\* ---- C8
\* The records that carry an email.
WithEmail(people) == SelectSeq(people, LAMBDA p : p.email # EmptyStr)

\* The file has not been touched by the run.
Unwritten == file = file0 /\ EventsAt("write") = {}

\* C8, the rewrite taken as what the write loop puts out: in a sync run that
\* gets to its end, the file is rewritten exactly once, with every current
\* local contact that has a non-empty email and nothing else, if at least one
\* local mutation (adopt, delete, overwrite) was applied, and is not written
\* otherwise; it is never written before the common group is through.
C8_RewriteOnceAtEnd ==
  sel = "sync" =>
    /\ pc = "done" =>
         IF EventsAt("local") # {}
         THEN /\ Cardinality(EventsAt("write")) = 1
              /\ file = Some([k \in 1..Len(WithEmail(apeople)) |->
                                LineOf(WithEmail(apeople)[k])])
         ELSE Unwritten
    /\ pc \in {"start", "remote_only", "local_only", "common", "finish"} => Unwritten
    /\ \A k \in EventsAt("write") :
         k = Len(trace) /\ todo = NoGroups /\ idx > Len(related)

\* C8, read to the letter: the rewrite holds the complete current local
\* contact set, the contacts without email included.
C8_RewritesEveryContact ==
  (sel = "sync" /\ pc = "done" /\ EventsAt("local") # {}) =>
    file = Some([k \in 1..Len(apeople) |-> LineOf(apeople[k])])

\* A run that applied a local mutation got to its end and rewrote the file
\* once, a named local contact without email being in memory.
C8_RewrittenWithoutNoMail ==
  /\ sel = "sync" /\ pc = "done"
  /\ EventsAt("local") # {}
  /\ Cardinality(EventsAt("write")) = 1
  /\ \E p \in Range(apeople) : p.email = EmptyStr /\ p.name # EmptyStr
  /\ file # file0

\* ---- C9
\* C9: every record the program writes to the file carries a non-empty
\* email, in the sync rewrite and in init.
C9_WrittenRecordsCarryEmail ==
  (\E k \in EventsAt("write") : trace[k].ok) =>
    \A i \in 1..Len(file[1]) : FieldOr(SplitOn(file[1][i], TAB), 2) # EmptyStr

\* ---- C10
\* C10: a remote create, update or delete that fails during sync is the last
\* thing the run does: the process exits with status 1, no prompt and no
\* remote call follow, and the file is not written, whatever local mutations
\* are in memory.
C10_RemoteFailureStops ==
  \A k \in EventsAt("call") :
    ~trace[k].ok =>
      /\ k = Len(trace)
      /\ pc = "exit" /\ exit_code = 1
      /\ Unwritten

\* A remote call failed after a local mutation had been applied in memory.
C10_FailedAfterLocalMutation ==
  /\ sel = "sync" /\ apeople_diarty
  /\ \E k \in EventsAt("call") :
       /\ ~trace[k].ok
       /\ \E j \in EventsAt("local") : j < k

\* ---- C11
\* How the run ended, when it ended before its time: by the operator's
\* cancellation, or by a failure.
Cancelled ==
  pc = "exit" /\ trace # <<>> /\ trace[Len(trace)].ev = "stop"
    /\ trace[Len(trace)].op = "cancel"
Failed ==
  pc = "exit" /\ trace # <<>>
    /\ \/ trace[Len(trace)].ev = "stop" /\ trace[Len(trace)].op = "input_error"
       \/ trace[Len(trace)].ev \in {"call", "write"} /\ ~trace[Len(trace)].ok

\* C11: the operator's cancellation (the init confirmation declined, a sync
\* prompt answered with neither choice) ends the process with a status other
\* than the one failures end it with (an answer that cannot be read, a failed
\* remote call, a failed write of the file), in init and in sync.
C11_CancelDistinctFromFailure ==
  /\ Cancelled => exit_code # FailureStatus
  /\ Failed => exit_code = FailureStatus

\* ---- C12
\* The actions of the remote-only phase applied to the remote contact at
\* position i: a delete that went through, or an adoption.
RemoteOnlyActions(i) ==
  {k \in 1..Len(trace) :
     /\ trace[k].phase = "remote_only" /\ trace[k].r = Some(i)
     /\ \/ trace[k].ev = "call" /\ trace[k].ok
        \/ trace[k].ev = "local"}

\* C12: each remote contact that bears a remote-only email has exactly one
\* of the two actions (deleted remotely, adopted as one new local record)
\* applied to it in the whole run, never both and never one twice, also when
\* it carries several remote-only emails.
C12_OneActionPerRemoteContact ==
  (sel = "sync" /\ connections # None) =>
    \A i \in 1..Len(connections[1]) :
      /\ Cardinality(RemoteOnlyActions(i)) <= 1
      /\ (/\ pc \in {"local_only", "common", "finish", "done"}
          /\ \E e \in groups.g : e # EmptyStr /\ HasEmail(connections[1][i], e))
         => Cardinality(RemoteOnlyActions(i)) = 1

\* ---- C13
\* The events of the local-only phase of the kind.
LocalOnlyEvents(kind) == {k \in EventsAt(kind) : trace[k].phase = "local_only"}

\* C13: in the local-only phase every local contact with a local-only
\* non-empty email gets exactly one prompt, and its own answer decides: pushed
\* to the remote, it is created there and stays in the local set; deleted, it
\* is absent from the local set; also when several contacts share the email.
C13_OwnAnswerDecides ==
  sel = "sync" =>
    /\ \A k \in LocalOnlyEvents("call") :
         trace[k].ok => /\ trace[k].op = "create"
                        /\ Contains(apeople, trace[k].l[1])
    /\ \A k \in LocalOnlyEvents("local") : ~Contains(apeople, trace[k].l[1])
    /\ (pc \in {"common", "finish", "done"}) =>
         \A e \in groups.a \ {EmptyStr} :
           Cardinality({k \in LocalOnlyEvents("prompt") : trace[k].email = e})
             = Len(get_related_apersons(load_addressbook_data(file0[1]).persons, e))

\* ---- C14
\* The overwrites of a local record from a remote contact.
Overwrites == {k \in EventsAt("local") : trace[k].op = "overwrite"}

\* C14: a divergence on a common email resolved by overwriting local from
\* remote removes one local record with that email and adds exactly one, with
\* the remote display name, the remote note, the last whitespace token of the
\* remote display name as nickname and the removed record's fcc; the number
\* of local records with that email stays what it was, also when several
\* remote contacts share the email and are resolved one after another.
C14_OverwriteReplacesOne ==
  Classified =>
    /\ \A k \in Overwrites :
         LET new == trace[k].l[1]
             old == trace[k - 2].l[1]
             R == connections[1][trace[k].r[1]]
             tokens == SplitWhitespace(get_gcontact_name(R))
         IN /\ trace[k - 2].ev = "pair"
            /\ new.name = get_gcontact_name(R)
            /\ new.biography = get_gcontact_biography(R)
            /\ new.fcc = old.fcc
            /\ new.email = old.email
            /\ tokens # <<>> => new.nickname = tokens[Len(tokens)]
            /\ Contains(apeople, new)
    /\ \A e \in groups.c :
         Len(get_related_apersons(apeople, e))
           = Len(get_related_apersons(load_addressbook_data(file0[1]).persons, e))


\* ---------------------------------------------------------------- C15

\* The requests sent in the common group: each overwrites a fetched contact.
CommonCalls == {k \in EventsAt("call") : trace[k].phase = "common"}

\* list with the sub-field main of its first entry set to Some(v) and nothing
\* else changed (a one-entry list when there was no entry).
WithFirst(fields, list, main, v) ==
  IF list = None \/ list = Some(<<>>)
  THEN Some(<<Entry(fields, [x \in {main} |-> Some(v)])>>)
  ELSE Some(<<[list[1][1] EXCEPT ![main] = Some(v)]>> \o Tail(list[1]))

\* The fetched contact R with only the nickname value, the display name, the
\* email value and the biography value replaced by those of L.
OnlyValuesReplaced(R, L) ==
  [R EXCEPT
     !.nicknames = WithFirst(NicknameFields, R.nicknames, "value", L.nickname),
     !.names = WithFirst(NameFields, R.names, "display_name", L.name),
     !.email_addresses = WithFirst(EmailFields, R.email_addresses, "value", L.email),
     !.biographies = WithFirst(BiographyFields, R.biographies, "value", L.biography)]

\* C15: when a fetched remote contact is overwritten from the local record,
\* the contact object sent keeps the fetched contact's resource identifier,
\* its organizations and every sub-field of its first nickname, name, email
\* and biography entries other than the nickname value, the display name, the
\* email value and the biography value, which are the local record's; nothing
\* else of the fetched contact is changed.
C15_OnlyFourValuesReplaced ==
  Classified =>
    \A k \in CommonCalls :
      LET R == connections[1][trace[k].r[1]]
          L == trace[k].l[1]
      IN trace[k].req[1].person = Some(OnlyValuesReplaced(R, L))

\* The part of C15 about the first entries alone: resource identifier,
\* organizations and etag kept, first entries' other sub-fields kept, the four
\* values taken from the local record.
C15_FirstEntriesKept ==
  Classified =>
    \A k \in CommonCalls :
      LET R == connections[1][trace[k].r[1]]
          L == trace[k].l[1]
          sent == trace[k].req[1].person[1]
          want == OnlyValuesReplaced(R, L)
      IN /\ sent.resource_name = R.resource_name
         /\ sent.organizations = R.organizations
         /\ sent.etag = R.etag
         /\ sent.nicknames[1][1] = want.nicknames[1][1]
         /\ sent.names[1][1] = want.names[1][1]
         /\ sent.email_addresses[1][1] = want.email_addresses[1][1]
         /\ sent.biographies[1][1] = want.biographies[1][1]


\* ---------------------------------------------------------------- C16

\* The requests update_google_contacts sent.
Pushes == {k \in EventsAt("call") : trace[k].op \in {"update", "create"}}

\* C16: update_google_contacts issues an update when the contact object it
\* built carries a resource identifier and a create otherwise; a local-only
\* contact pushed is always created; a fetched contact with a resource
\* identifier that is overwritten is updated under that identifier; both
\* calls carry the field mask {nicknames, names, emailAddresses, biographies}.
C16_UpdateIffResourceName ==
  sel = "sync" =>
    \A k \in Pushes :
      LET req == trace[k].req[1]
          built == req.person[1]
      IN /\ req.op = "update" <=> built.resource_name # None
         /\ req.op = "update" => req.resource_name = built.resource_name
         /\ req.mask = {"nicknames", "names", "emailAddresses", "biographies"}
         /\ trace[k].phase = "local_only" => req.op = "create"
         /\ (trace[k].phase = "common"
               /\ connections[1][trace[k].r[1]].resource_name # None)
            => /\ req.op = "update"
               /\ req.resource_name = connections[1][trace[k].r[1]].resource_name

\* A run in which a local-only contact was created remotely and then a
\* fetched contact with a resource identifier was updated.
C16_CreatedThenUpdated ==
  /\ sel = "sync"
  /\ \E j, k \in Pushes :
       /\ j < k
       /\ trace[j].phase = "local_only" /\ trace[j].op = "create" /\ trace[j].ok
       /\ trace[k].phase = "common" /\ trace[k].op = "update" /\ trace[k].ok
       /\ trace[k].req[1].resource_name # None


\* ---------------------------------------------------------------- C17

\* The prompts and the local or remote mutations made under the email e.
ActedOn(e) ==
  {k \in 1..Len(trace) :
     trace[k].ev \in {"prompt", "call", "local"} /\ trace[k].email = e}

\* C17: the empty string is never treated as an email key: in none of the
\* three groups is a prompt issued or a local or remote mutation made for
\* the empty email, whatever empty-email local records or empty remote email
\* values the inputs contain.
C17_EmptyEmailNeverHandled ==
  sel = "sync" => ActedOn(EmptyStr) = {}

\* The part of C17 about the two only-groups.
C17_EmptyEmailSkippedInOnlyGroups ==
  sel = "sync" =>
    \A k \in ActedOn(EmptyStr) : trace[k].phase \notin {"remote_only", "local_only"}


\* ---------------------------------------------------------------- C18

\* The name list and the organization list of the Person, empty when absent.
XNameList == OrEmpty(gx_person[1].names)
XOrgList == OrEmpty(gx_person[1].organizations)

\* What the organizations give: the first one's name, the empty string when
\* it is unset or there is none.
XOrgName == IF XOrgList = <<>> THEN EmptyStr ELSE OrDefault(XOrgList[1].name)

\* C18 as stated: get_gcontact_name returns the display-name field of the
\* first name entry whenever the name list is non-empty (the empty string if
\* the field is unset), the first organization's name only when the name
\* list is empty or absent, and the empty string when names and
\* organizations are both empty or absent.
C18_NameListDecides ==
  gx_out # None =>
    /\ XNameList # <<>> => gx_out[1].name = OrDefault(XNameList[1].display_name)
    /\ (XNameList = <<>> /\ XOrgList # <<>>) => gx_out[1].name = OrDefault(XOrgList[1].name)
    /\ (XNameList = <<>> /\ XOrgList = <<>>) => gx_out[1].name = EmptyStr

\* C18 (amended): get_gcontact_name returns a string for every Person: the
\* display name of the first name entry when that is set and not empty; in
\* every other case (no name list, empty name list, display name unset or
\* empty) the first organization's name, or the empty string when there is
\* no organization or its name is unset.
C18_DisplayNameElseOrganization ==
  gx_out # None =>
    /\ gx_out[1].name \in Seq({c : c \in Range(S_JaneDoe) \cup Range(S_Ac)})
    /\ (XNameList # <<>> /\ OrDefault(XNameList[1].display_name) # EmptyStr)
          => gx_out[1].name = XNameList[1].display_name[1]
    /\ (XNameList = <<>> \/ OrDefault(XNameList[1].display_name) = EmptyStr)
          => gx_out[1].name = XOrgName

\* A Person with a name entry whose display name is unset and an organization
\* with a name: the organization's name is returned.
C18_UnsetDisplayNameGivesOrganization ==
  /\ gx_out # None
  /\ XNameList # <<>> /\ XNameList[1].display_name = None
  /\ XOrgList # <<>> /\ XOrgList[1].name = Some(S_Ac)
  /\ gx_out[1].name = S_Ac


\* ---------------------------------------------------------------- C19

\* The lines that answer y: a y in either case, with white space around it.
YesLines == {<<"y", NL>>, <<SPC, "Y", TAB, NL>>}

\* What was read at the overwrite confirmation, if it was asked.
Confirmations == {k \in EventsAt("answer") : trace[k].phase = "init"}

\* C19: in init, when the local file already exists, the file is left
\* untouched unless the operator answers y (in either case, white space
\* around it ignored): any other answer, and an answer that cannot be read,
\* ends the run before the file is opened for writing, and nothing is
\* written unless the confirmation was asked.
C19_UntouchedUnlessYes ==
  (sel = "init" /\ file0 # None) =>
    /\ (file # file0 \/ EventsAt("write") # {} \/ pc = "init_write")
         => \E k \in Confirmations : trace[k].req # None /\ trace[k].req[1] \in YesLines
    /\ \A k \in Confirmations :
         (trace[k].req = None \/ trace[k].req[1] \notin YesLines)
           => /\ pc = "exit" /\ file = file0 /\ EventsAt("write") = {}
              /\ trace[Len(trace)].ev = "stop"
    /\ \A k \in Confirmations :
         (trace[k].req # None /\ trace[k].req[1] \in YesLines)
           => EventsAt("stop") = {}

\* An existing file, the answer yes: the run ended with the file as it was.
C19_DeclinedWithYes ==
  /\ sel = "init" /\ file0 # None /\ file0 # Some(<<>>)
  /\ \E k \in Confirmations : trace[k].req = Some(<<"y", "e", "s", NL>>)
  /\ pc = "exit" /\ file = file0


\* ---------------------------------------------------------------- C20

\* lines without its i-th line.
WithoutLine(lines, i) == SubSeq(lines, 1, i - 1) \o SubSeq(lines, i + 1, Len(lines))

\* The i-th line begins with three spaces, follows another line, and the file
\* loads without an error with it and without it.
IsFoldLine(lines, i) ==
  /\ i >= 2 /\ StartsWith(lines[i], ThreeSpaces)
  /\ load_addressbook_data(lines).err = "none"
  /\ load_addressbook_data(WithoutLine(lines, i)).err = "none"

\* The i-th line is part of the record of the line before it and leaves the
\* number of records as it is without the line.
Folded(lines, i) ==
  LET out == load_addressbook_data(lines) IN
  /\ \A k \in 1..Len(out.persons) : i \in out.srcs[k] => (i - 1) \in out.srcs[k]
  /\ Len(out.persons) = Len(load_addressbook_data(WithoutLine(lines, i)).persons)

\* C20: a line that begins with three spaces never starts a record of its
\* own: it is folded into the record built from the preceding line(s) and
\* does not change the number of parsed records, both when the preceding
\* line ended in a tab and when it did not.
C20_ThreeSpacesFolded ==
  (cd_mode = "file" /\ cd_out # None) =>
    \A i \in 1..Len(cd_file[1]) : IsFoldLine(cd_file[1], i) => Folded(cd_file[1], i)

\* The part of C20 about a pending continuation: the record buffer is not
\* empty when the line is reached.
C20_FoldedWhenPending ==
  (cd_mode = "file" /\ cd_out # None) =>
    \A i \in 1..Len(cd_file[1]) :
      (IsFoldLine(cd_file[1], i) /\ Before(cd_file[1], i).combined_line # EmptyStr)
        => Folded(cd_file[1], i)


\* ---------------------------------------------------------------- C21

\* The last white-space token of name, Unknown when it has none: what follows
\* the last white space of the name with its trailing white space removed.
LastToken(name) ==
  LET t == TrimEnd(name)
      spaces == {i \in 1..Len(t) : IsWhitespace(t[i])}
      from == IF spaces = {} THEN 1
              ELSE (CHOOSE i \in spaces : \A j \in spaces : j <= i) + 1
  IN IF t = <<>> THEN Unknown ELSE Drop(t, from)

\* The prefix of s before its first digit, s itself when it has no digit.
BeforeFirstDigit(s) ==
  LET digits == {i \in 1..Len(s) : s[i] \in Digits} IN
  IF digits = {} THEN s
  ELSE SubSeq(s, 1, (CHOOSE i \in digits : \A j \in digits : i <= j) - 1)

\* C21: with email_count = 1, generate_nickname appends no counter: it
\* returns the last white-space token of the display name (Unknown for a
\* name with no token) when the pool is empty, the prefix before the first
\* digit of the first pool entry when the pool is not empty, and pushes that
\* value onto the pool even if the pool already contains it.
C21_SingleEmailNoCounter ==
  (nk_count = 1 /\ nk_out # <<>>) =>
    LET nickname == nk_out[Len(nk_out)] IN
    /\ nk_prev = <<>> => nickname = LastToken(nk_name)
    /\ nk_prev # <<>> => nickname = BeforeFirstDigit(nk_prev[1])
    /\ nk_pool = nk_prev \o <<nickname>>

\* The call for Jane Doe with email_count = 1 on the pool [Doe01, Doe] has
\* returned Doe, which the pool now holds twice.
C21_DoePushedAgain ==
  /\ nk_count = 1 /\ nk_name = S_JaneDoe /\ nk_pool0 = <<S_Doe01, S_Doe>>
  /\ nk_out = <<S_Doe>>
  /\ nk_pool = <<S_Doe01, S_Doe, S_Doe>>


\* ---------------------------------------------------------------- C22

RECURSIVE WithoutTrailingDigits(_)
\* s with only its trailing run of digits removed.
WithoutTrailingDigits(s) ==
  IF s # <<>> /\ s[Len(s)] \in Digits
  THEN WithoutTrailingDigits(SubSeq(s, 1, Len(s) - 1))
  ELSE s

\* C22: the adjusted local nickname of the common-phase comparison is the
\* local nickname with only its trailing run of digits removed (what is
\* before that run, earlier digits included, is kept), replaced by the
\* remote nickname exactly when the stripped value equals the last
\* white-space token of the local display name.
C22_TrailingDigitsStripped ==
  cm_out # None =>
    LET stripped == WithoutTrailingDigits(cm_ap[1].nickname) IN
    cm_out[1].anickname =
      IF stripped = LastToken(cm_ap[1].name)
      THEN get_gcontact_nickname(cm_person[1])
      ELSE stripped

\* What holds instead of C22: the nickname is cut at its first digit.
C22_CutAtFirstDigit ==
  cm_out # None =>
    LET stripped == BeforeFirstDigit(cm_ap[1].nickname) IN
    cm_out[1].anickname =
      IF stripped = LastToken(cm_ap[1].name)
      THEN get_gcontact_nickname(cm_person[1])
      ELSE stripped


\* ---------------------------------------------------------------- C23

\* Whether s, leading white space skipped, has one of the encoded forms.
HasEncodedForm(s) ==
  LET t == TrimStart(s) IN
  (StartsWith(t, B64Prefix) \/ StartsWith(t, QPrefix)) /\ EndsWith(t, EncSuffix)

\* C23: decode_if_encoded returns every field that has neither encoded form
\* exactly as it was given, character for character, leading and trailing
\* white space included.
C23_PlainFieldUnchanged ==
  (dc_out # None /\ ~HasEncodedForm(dc_in)) => dc_out[1] = Ok(dc_in)

\* What holds instead of C23: the field is returned without its leading
\* white space, and unchanged otherwise.
C23_PlainFieldTrimmedAtStart ==
  (dc_out # None /\ ~HasEncodedForm(dc_in)) => dc_out[1] = Ok(TrimStart(dc_in))

\* ---------------------------------------------------------------- C26

\* C26: decode_if_encoded ends, for every input, in a decoded string or in
\* an error value and never aborts, also when the prefix and the suffix of
\* the encoded form overlap.
C26_DecodeNeverAborts ==
  dc_out # None => dc_out[1].kind \in {"ok", "decode"}

\* What holds instead of C26: the call aborts exactly for a field that,
\* leading white space skipped, has an encoded form and is shorter than the
\* prefix and the suffix together.
C26_AbortsOnlyOnOverlap ==
  dc_out # None =>
    (dc_out[1].kind = "panic"
       <=> (HasEncodedForm(dc_in) /\ Len(TrimStart(dc_in)) < Len(B64Prefix) + Len(EncSuffix)))


\* ---------------------------------------------------------------- C24

\* The nickname field of a line of the file.
NicknameOfLine(line) == FieldOr(SplitOn(line, TAB), 0)

\* C24: after init, no two records of the written local file have the same
\* nickname: a nickname derived for one remote contact that collides with
\* one already issued to another contact in the same run is disambiguated.
C24_InitNicknamesDistinct ==
  (/\ sel = "init" /\ pc = "done"
   /\ \A a, b \in 1..Len(OrEmpty(connections)) :
        a # b => connections[1][a] # connections[1][b]) =>
    \A i, j \in 1..Len(file[1]) :
      i # j => NicknameOfLine(file[1][i]) # NicknameOfLine(file[1][j])

\* What holds instead of C24: the records init writes for one remote contact
\* have pairwise distinct nicknames when the contact has several emails.
C24_DistinctWithinContact ==
  (sel = "init" /\ pc = "done") =>
    \A c \in 1..Len(OrEmpty(connections)) :
      LET lines == init_lines(<<connections[1][c]>>) IN
      Len(lines) > 1 =>
        \A i, j \in 1..Len(lines) :
          i # j => NicknameOfLine(lines[i]) # NicknameOfLine(lines[j])


\* ---------------------------------------------------------------- C25

\* A line that is a record by itself: it does not end in a tab, does not
\* begin with three spaces and holds at most four tabs.
IsWholeRecordLine(line) ==
  ~EndsWith(line, <<TAB>>) /\ ~StartsWith(line, ThreeSpaces) /\ TabCount(line) <= 4

\* C25: a file of N lines, none ending in a tab or beginning with three
\* spaces and each with at most four tabs, is parsed into exactly N records,
\* the i-th built from the i-th line: no record is built from an empty
\* record buffer.
C25_OneRecordPerLine ==
  (/\ cd_mode = "file" /\ cd_out # None
   /\ \A i \in 1..Len(cd_file[1]) : IsWholeRecordLine(cd_file[1][i])) =>
    LET out == cd_out[1] IN
    /\ out.err = "none"
    /\ Len(out.persons) = Len(cd_file[1])
    /\ \A i \in 1..Len(out.persons) : out.srcs[i] = {i}

\* What holds instead of C25: such a file of N lines gives 2N records, an
\* all-empty record built from the empty buffer before the record of each
\* line.
C25_EmptyRecordBeforeEachLine ==
  (/\ cd_mode = "file" /\ cd_out # None
   /\ \A i \in 1..Len(cd_file[1]) : IsWholeRecordLine(cd_file[1][i])) =>
    LET out == cd_out[1] IN
    /\ out.err = "none"
    /\ Len(out.persons) = 2 * Len(cd_file[1])
    /\ \A i \in 1..Len(cd_file[1]) :
         /\ out.srcs[2 * i - 1] = {} /\ out.buffers[2 * i - 1] = EmptyStr
         /\ out.persons[2 * i - 1] = APerson(EmptyStr, EmptyStr, EmptyStr, EmptyStr, EmptyStr)
         /\ out.srcs[2 * i] = {i}


\* ---------------------------------------------------------------- C30

\* The entries of list after its first.
LaterEntries(list) == IF OrEmpty(list) = <<>> THEN {} ELSE Range(Tail(list[1]))

\* C30: overwriting a remote contact from the local record removes no list
\* entry from it: every email address, nickname, name and biography entry of
\* the fetched contact other than the first of each list is still in the
\* contact object sent.
C30_NoEntryRemoved ==
  Classified =>
    \A k \in CommonCalls :
      LET R == connections[1][trace[k].r[1]]
          sent == trace[k].req[1].person[1]
      IN /\ LaterEntries(R.email_addresses) \subseteq Range(OrEmpty(sent.email_addresses))
         /\ LaterEntries(R.nicknames) \subseteq Range(OrEmpty(sent.nicknames))
         /\ LaterEntries(R.names) \subseteq Range(OrEmpty(sent.names))
         /\ LaterEntries(R.biographies) \subseteq Range(OrEmpty(sent.biographies))

\* What holds instead of C30: each of the four lists of the contact object
\* sent has exactly one entry.
C30_OneEntryPerList ==
  Classified =>
    \A k \in CommonCalls :
      LET sent == trace[k].req[1].person[1] IN
      /\ Len(OrEmpty(sent.email_addresses)) = 1 /\ Len(OrEmpty(sent.nicknames)) = 1
      /\ Len(OrEmpty(sent.names)) = 1 /\ Len(OrEmpty(sent.biographies)) = 1


\* ---------------------------------------------------------------- C27

\* The position of the start of the second run in the trace, 0 before it.
RunMark ==
  IF \E k \in 1..Len(trace) : trace[k].ev = "run"
  THEN CHOOSE k \in 1..Len(trace) : trace[k].ev = "run"
  ELSE 0

\* The events of a kind of the first and of the second run.
FirstRun(kind) == {k \in EventsAt(kind) : RunMark = 0 \/ k < RunMark}
SecondRunEvents(kind) == {k \in EventsAt(kind) : RunMark # 0 /\ k > RunMark}

\* The prompts of the second run in the common group.
CommonPromptsAgain == {j \in SecondRunEvents("prompt") : trace[j].phase = "common"}

\* C27: a divergent pair on a common email resolved by overwriting local
\* from remote converges: a second sync run over the resulting local set and
\* the unchanged remote set issues no prompt for the new local record and
\* that remote contact.
C27_OverwriteLocalConverges ==
  (RunMark # 0 /\ \A c \in FirstRun("call") : ~trace[c].ok) =>
    \A k \in FirstRun("local") :
      trace[k].op = "overwrite" =>
        \A j \in CommonPromptsAgain :
          ~(trace[j].r = trace[k].r /\ trace[j].l = trace[k].l)

\* What holds instead of C27: the pair converges when the last token of the
\* remote display name has no digit.
C27_ConvergesWithoutDigit ==
  (RunMark # 0 /\ \A c \in FirstRun("call") : ~trace[c].ok) =>
    \A k \in FirstRun("local") :
      (trace[k].op = "overwrite" /\ ~HasDigit(LastToken(trace[k].l[1].name))) =>
        \A j \in CommonPromptsAgain :
          ~(trace[j].r = trace[k].r /\ trace[j].l = trace[k].l)

\* ---------------------------------------------------------------- C28

\* C28: a divergent pair on a common email resolved by overwriting remote
\* from local converges: after the update, the one request of the first
\* run, a second sync run issues no prompt for that local record and the
\* contact of the resource name updated.
C28_OverwriteRemoteConverges ==
  (RunMark # 0 /\ Cardinality(FirstRun("call")) = 1) =>
    \A k \in FirstRun("call") :
      (trace[k].ok /\ trace[k].phase = "common" /\ trace[k].op = "update") =>
        \A j \in CommonPromptsAgain :
          ~(/\ connections[1][trace[j].r[1]].resource_name = trace[k].req[1].resource_name
            /\ trace[j].l = trace[k].l)

\* What holds instead of C28: the pair converges when the local nickname
\* has no digit and the local name is not empty.
C28_ConvergesWithoutDigit ==
  (RunMark # 0 /\ Cardinality(FirstRun("call")) = 1) =>
    \A k \in FirstRun("call") :
      (/\ trace[k].ok /\ trace[k].phase = "common" /\ trace[k].op = "update"
       /\ ~HasDigit(trace[k].l[1].nickname) /\ trace[k].l[1].name # EmptyStr) =>
        \A j \in CommonPromptsAgain :
          ~(/\ connections[1][trace[j].r[1]].resource_name = trace[k].req[1].resource_name
            /\ trace[j].l = trace[k].l)

\* ---------------------------------------------------------------- C29

\* C29: a sync run directly after a successful init, the remote contact
\* list unchanged in between, issues no prompt, performs no remote mutation
\* and does not rewrite the local file.
C29_SyncAfterInitIsQuiet ==
  (RunMark # 0 /\ \E w \in FirstRun("write") : trace[w].phase = "init" /\ trace[w].ok) =>
    /\ \A kind \in {"prompt", "call", "local", "write"} : SecondRunEvents(kind) = {}
    /\ file = file0

=============================================================================
